---- MODULE Spec2Model ----
(***************************************************************************)
(* A model of doom-web: the WAD container and record decoder               *)
(* (src/src/wadParser.js), the map geometry builder (MapRenderer) and the  *)
(* movement engine (Game), the last two as listed in src/QUICK_START.md.   *)
(*                                                                         *)
(* Strings read from the file are sequences of character codes, so that    *)
(* readString and String.prototype.trim are modelled by what they do.      *)
(* JS numbers are modelled exactly on the integers: every coordinate,      *)
(* height and displacement drawn below is an integer, and comparisons      *)
(* the code makes after a division are made by cross-multiplication        *)
(* (floating-point rounding is not modelled).                              *)
(***************************************************************************)
EXTENDS Integers, Sequences, FiniteSets, TLC

VARIABLES
    wadFile,      \* the array buffer handed to new WADParser(arrayBuffer)
    wadState,     \* "new" | "parsed" | "error" : outcome of the constructor
    lumps,        \* WADParser.lumps   : the ordered directory
    lumpMap,      \* WADParser.lumpMap : name -> index into lumps (object reference)
    wadCall,      \* the last query made on the parser and what it returned
    polyIn,       \* a decoded map handed to getSectorPolygon, and how it was built
    polyOut,      \* what getSectorPolygon(0) returned for it
    locateIn,     \* floor sectors and a position handed to getCurrentSector
    locateOut,    \* what getCurrentSector returned for them
    mapData,      \* Game.mapData: the loaded map, as its index in GameMaps (0: none)
    collisionLines, \* Game.collisionLines
    floorSectors, \* Game.floorSectors
    mapGeometry,  \* Game.mapGeometry: the floor and ceiling surfaces asked for
    player,       \* Game.player: position, verticalVelocity, onGround
    isRunning,    \* Game.isRunning
    spacePressed, \* Game.spacePressed
    frames,       \* the number of animation frames run so far
    lastInput,    \* the last call made on the game, its arguments, the player before it
    app,          \* App: wadParser, the map select element, currentMap, game, status
    appCall,      \* the last call made on the App, its outcome, the App before it
    fnIn,         \* the arguments of a function that is run on its own
    fnOut,        \* what the function returned for them
    renderer,     \* the MapRenderer in use: its textureCache and the renderTexture calls
    animation     \* the animation loop: callbacks requested, updates run in the frame

wadVars == <<wadFile, wadState, lumps, lumpMap, wadCall>>

polyVars == <<polyIn, polyOut>>

locateVars == <<locateIn, locateOut>>

gameVars ==
    <<mapData, collisionLines, floorSectors, mapGeometry, player, isRunning, spacePressed,
      frames, lastInput>>

appVars == <<app, appCall>>

otherVars == <<fnIn, fnOut, renderer, animation>>

vars == <<wadVars, polyVars, locateVars, gameVars, appVars, otherVars>>

----------------------------------------------------------------------------
(* Generic helpers *)

Range(s) == {s[i] : i \in 1..Len(s)}

----------------------------------------------------------------------------
(* Character codes and the names the parser compares against *)

Str_IWAD     == <<73, 87, 65, 68>>
Str_PWAD     == <<80, 87, 65, 68>>
Str_XWAD     == <<88, 87, 65, 68>>
Str_E1M1     == <<69, 49, 77, 49>>
Str_E1M2     == <<69, 49, 77, 50>>
Str_THINGS   == <<84, 72, 73, 78, 71, 83>>
Str_LINEDEFS == <<76, 73, 78, 69, 68, 69, 70, 83>>
Str_SIDEDEFS == <<83, 73, 68, 69, 68, 69, 70, 83>>
Str_VERTEXES == <<86, 69, 82, 84, 69, 88, 69, 83>>
Str_SECTORS  == <<83, 69, 67, 84, 79, 82, 83>>
Str_SEGS     == <<83, 69, 71, 83>>
Str_SSECTORS == <<83, 83, 69, 67, 84, 79, 82, 83>>
Str_NODES    == <<78, 79, 68, 69, 83>>

\* an 8-byte, null-padded name field as stored in the file
RECURSIVE Zeros(_)
Zeros(n) == IF n <= 0 THEN <<>> ELSE <<0>> \o Zeros(n - 1)

Pad8(s) == s \o Zeros(8 - Len(s))

\* white space removed by String.prototype.trim, among the codes 0..255
IsWhiteSpace(c) == c \in {9, 10, 11, 12, 13, 32, 160}

IsDigit(c) == c >= 48 /\ c <= 57

----------------------------------------------------------------------------
(* WADParser.readString and String.prototype.trim *)

RECURSIVE ReadFrom(_, _, _)
ReadFrom(bytes, i, length) ==
    IF i > length \/ i > Len(bytes) THEN <<>>
    ELSE IF bytes[i] = 0 THEN <<>>
    ELSE <<bytes[i]>> \o ReadFrom(bytes, i + 1, length)

\* readString(offset, length) on the bytes that start at offset
readString(bytes, length) == ReadFrom(bytes, 1, length)

RECURSIVE TrimStart(_)
TrimStart(s) ==
    IF s = <<>> THEN s
    ELSE IF IsWhiteSpace(s[1]) THEN TrimStart(Tail(s))
    ELSE s

RECURSIVE TrimEnd(_)
TrimEnd(s) ==
    IF s = <<>> THEN s
    ELSE IF IsWhiteSpace(s[Len(s)]) THEN TrimEnd(SubSeq(s, 1, Len(s) - 1))
    ELSE s

trim(s) == TrimEnd(TrimStart(s))

----------------------------------------------------------------------------
(* The file: header tag, directory entries, payload.  The layout is the    *)
(* usual one: 12-byte header, the lump payloads packed in directory order, *)
(* then the directory.                                                     *)

HeaderSize == 12

\* payload byte at absolute file position pos (content drawn from a seed)
PayloadByte(seed, pos) == (pos * seed + 11) % 256

ByteSeeds == {7, 64}

\* absolute offsets of packed lumps: the sum of the sizes before entry i
RECURSIVE PackedOffset(_, _)
PackedOffset(sizes, i) ==
    IF i <= 1 THEN HeaderSize ELSE PackedOffset(sizes, i - 1) + sizes[i - 1]

MakeFile(tag, names, sizes, seed) ==
    [tag  |-> tag,
     dir  |-> [i \in 1..Len(names) |->
                 [offset |-> PackedOffset(sizes, i), size |-> sizes[i], name |-> names[i]]],
     seed |-> seed,
     end  |-> PackedOffset(sizes, Len(sizes) + 1) + 16 * Len(names)]

\* DataView.getUint8 on the whole buffer (this.view); past the payload lie
\* the directory's bytes, which hold no name text: read as zero
BufferByte(file, pos) ==
    IF "bytes" \in DOMAIN file
    THEN IF pos >= HeaderSize /\ pos < HeaderSize + Len(file.bytes)
         THEN file.bytes[pos - HeaderSize + 1]
         ELSE 0
    ELSE IF pos < file.end - 16 * Len(file.dir) THEN PayloadByte(file.seed, pos) ELSE 0

----------------------------------------------------------------------------
(* WADParser.parse: header check, then the directory loop *)

\* Map.prototype.set(key, value): an existing key is overwritten
MapSetKeepFirst(m, k, v) ==
    [x \in DOMAIN m \cup {k} |-> IF x \in DOMAIN m THEN m[x] ELSE v]

MapSet(m, k, v) ==
    [x \in DOMAIN m \cup {k} |-> IF x = k THEN v ELSE m[x]]

EmptyMap == [x \in {} |-> 0]

RECURSIVE ParseDirectory(_, _, _, _)
ParseDirectory(dir, i, ls, lm) ==
    IF i > Len(dir) THEN [lumps |-> ls, lumpMap |-> lm]
    ELSE LET lumpName == trim(readString(dir[i].name, 8))
             lump == [name |-> lumpName, offset |-> dir[i].offset, size |-> dir[i].size]
         IN  ParseDirectory(dir, i + 1, Append(ls, lump), MapSet(lm, lumpName, i))

HeaderOk(file) ==
    LET header == readString(file.tag, 4)
    IN  header = Str_IWAD \/ header = Str_PWAD

\* WADParser.getLump: the index of the entry the lookup holds, 0 for undefined
getLump(lm, name) == IF name \in DOMAIN lm THEN lm[name] ELSE 0

\* positional scanning of the ordered directory
RECURSIVE FirstNamed(_, _, _)
FirstNamed(ls, name, i) ==
    IF i > Len(ls) THEN 0
    ELSE IF ls[i].name = name THEN i
    ELSE FirstNamed(ls, name, i + 1)

IndicesNamed(ls, name) == {i \in 1..Len(ls) : ls[i].name = name}

----------------------------------------------------------------------------
(* Record decoding: DataView reads on a lump's own view, readString on the *)
(* whole buffer.  A read outside the view throws RangeError.               *)

RangeError == [kind |-> "throw", error |-> "RangeError"]

IsThrow(v) == v.kind = "throw"

\* a call that returned: its value
Returned(v) == [kind |-> "ok", value |-> v]

ToInt16(u) == IF u >= 32768 THEN u - 65536 ELSE u

\* view.getInt16(off, true) on new DataView(buffer, lump.offset, lump.size)
Int16InRange(lump, off) == off >= 0 /\ off + 2 <= lump.size

\* view.getInt16(off) without the littleEndian argument
getInt16BigEndian(file, lump, off) ==
    ToInt16(256 * BufferByte(file, lump.offset + off)
            + BufferByte(file, lump.offset + off + 1))

getInt16(file, lump, off) ==
    ToInt16(BufferByte(file, lump.offset + off)
            + 256 * BufferByte(file, lump.offset + off + 1))

\* this.readString(pos, 8).trim() for a name field of a record
NameAt(file, pos) ==
    trim(readString([k \in 1..8 |-> BufferByte(file, pos + k - 1)], 8))

\* the eight record categories in the order getMap decodes them
MapCategories ==
    <<"things", "linedefs", "sidedefs", "vertexes", "sectors", "segs", "ssectors", "nodes">>

SubLumpNames ==
    <<Str_THINGS, Str_LINEDEFS, Str_SIDEDEFS, Str_VERTEXES, Str_SECTORS, Str_SEGS,
      Str_SSECTORS, Str_NODES>>

RecordSizes == <<10, 14, 30, 4, 26, 12, 4, 28>>

\* field layouts in the order the object literals read them:
\* <<offset, width>>, width 2 for getInt16 and 8 for a name
RecordFields ==
    << << <<0, 2>>, <<2, 2>>, <<4, 2>>, <<6, 2>>, <<8, 2>> >>,
       << <<0, 2>>, <<2, 2>>, <<4, 2>>, <<6, 2>>, <<8, 2>>, <<10, 2>>, <<12, 2>> >>,
       << <<0, 2>>, <<2, 2>>, <<4, 8>>, <<12, 8>>, <<20, 8>>, <<28, 2>> >>,
       << <<0, 2>>, <<2, 2>> >>,
       << <<0, 2>>, <<2, 2>>, <<4, 8>>, <<12, 8>>, <<20, 2>>, <<22, 2>>, <<24, 2>> >>,
       << <<0, 2>>, <<2, 2>>, <<4, 2>>, <<6, 2>>, <<8, 2>>, <<10, 2>> >>,
       << <<0, 2>>, <<2, 2>> >>,
       << <<0, 2>>, <<2, 2>>, <<4, 2>>, <<6, 2>>, <<8, 2>>, <<10, 2>>, <<12, 2>>,
          <<14, 2>>, <<16, 2>>, <<18, 2>>, <<20, 2>>, <<22, 2>>, <<24, 2>>, <<26, 2>> >> >>

\* the loop "for (i = 0; i < lump.size / recSize; i++)": the number of times
\* its body is entered (the quotient is not rounded)
LoopCount(size, recSize) == (size + recSize - 1) \div recSize

\* one loop body: does a read of it throw, and the values it reads otherwise
RecordThrows(lump, base, fields) ==
    \E k \in 1..Len(fields) :
        fields[k][2] = 2 /\ ~Int16InRange(lump, base + fields[k][1])

RecordValues(file, lump, base, fields) ==
    [k \in 1..Len(fields) |->
        IF fields[k][2] = 2
        THEN getInt16(file, lump, base + fields[k][1])
        ELSE NameAt(file, lump.offset + base + fields[k][1])]

\* mapLumps.find(l => l.name === name): index in mapLumps, 0 for undefined
RECURSIVE FindLump(_, _, _)
FindLump(mapLumps, name, i) ==
    IF i > Len(mapLumps) THEN 0
    ELSE IF mapLumps[i].name = name THEN i
    ELSE FindLump(mapLumps, name, i + 1)

\* the object a loop body pushes, with the property names of the source
AsObject(k, v) ==
    CASE k = 1 -> [x |-> v[1], y |-> v[2], angle |-> v[3], type |-> v[4], flags |-> v[5]]
      [] k = 2 -> [startVertex |-> v[1], endVertex |-> v[2], flags |-> v[3],
                   lineType |-> v[4], sectorTag |-> v[5], frontSidedef |-> v[6],
                   backSidedef |-> v[7]]
      [] k = 3 -> [xOffset |-> v[1], yOffset |-> v[2], upperTexture |-> v[3],
                   lowerTexture |-> v[4], middleTexture |-> v[5], sector |-> v[6]]
      [] k = 4 -> [x |-> v[1], y |-> v[2]]
      [] k = 5 -> [floorHeight |-> v[1], ceilingHeight |-> v[2], floorTexture |-> v[3],
                   ceilingTexture |-> v[4], lightLevel |-> v[5], special |-> v[6],
                   tag |-> v[7]]
      [] OTHER -> v

\* parseThings, parseLinedefs, parseSidedefs, parseVertexes, parseSectors,
\* parseSegs, parseSSectors, parseNodes (k = 1..8): the array of decoded
\* objects, or RangeError when a read of the loop throws
ParseRecords(file, mapLumps, k) ==
    LET at == FindLump(mapLumps, SubLumpNames[k], 1)
    IN  IF at = 0 THEN Returned(<<>>)
        ELSE IF mapLumps[at].size = 0 THEN Returned(<<>>)
        ELSE LET lump == mapLumps[at]
                 n == LoopCount(lump.size, RecordSizes[k])
             IN  IF \E i \in 0..(n - 1) :
                        RecordThrows(lump, i * RecordSizes[k], RecordFields[k])
                 THEN RangeError
                 ELSE Returned([i \in 1..n |->
                        AsObject(k, RecordValues(file, lump, (i - 1) * RecordSizes[k],
                                                 RecordFields[k]))])

----------------------------------------------------------------------------
(* WADParser.getMap *)

\* /^(E\dM\d|MAP\d{2})$/
IsMapName(n) ==
    \/ Len(n) = 4 /\ n[1] = 69 /\ IsDigit(n[2]) /\ n[3] = 77 /\ IsDigit(n[4])
    \/ Len(n) = 5 /\ n[1] = 77 /\ n[2] = 65 /\ n[3] = 80 /\ IsDigit(n[4]) /\ IsDigit(n[5])

\* the index of the next map marker after mapIndex, or Len(ls) + 1
RECURSIVE MapEnd(_, _)
MapEnd(ls, i) ==
    IF i > Len(ls) THEN Len(ls) + 1
    ELSE IF IsMapName(ls[i].name) THEN i
    ELSE MapEnd(ls, i + 1)

\* the whole directory in place of the slice
MapLumpsWholeDirectory(ls, mapIndex) == ls

\* this.lumps.slice(mapIndex, endIndex)
MapLumps(ls, mapIndex) == SubSeq(ls, mapIndex, MapEnd(ls, mapIndex + 1) - 1)

NullResult == [kind |-> "null"]

getMap(file, ls, mapName) ==
    LET mapIndex == FirstNamed(ls, mapName, 1)
    IN  IF mapIndex = 0 THEN NullResult
        ELSE LET mapLumps == MapLumps(ls, mapIndex)
                 parsed == [k \in 1..8 |-> ParseRecords(file, mapLumps, k)]
             IN  IF \E k \in 1..8 : IsThrow(parsed[k])
                 THEN RangeError
                 ELSE Returned([name |-> mapName,
                                data |-> [c \in Range(MapCategories) |->
                                    parsed[CHOOSE k \in 1..8 : MapCategories[k] = c].value]])

----------------------------------------------------------------------------
(* MapRenderer: collision lines and floor regions from the decoded map.    *)
(* JS arrays are indexed from 0; an index outside the array reads          *)
(* undefined.                                                              *)

Has(arr, i) == i >= 0 /\ i < Len(arr)

At(arr, i) == arr[i + 1]

TypeError == [kind |-> "throw", error |-> "TypeError"]

DoorTypes == {1, 26, 27, 28, 29, 31, 32, 33, 34, 46, 117, 118, 119}

\* doorTypes.includes(linedef.special): reading a property the object does
\* not have yields undefined, which no list of numbers includes
IncludesSpecial(linedef) ==
    IF "special" \in DOMAIN linedef THEN linedef.special \in DoorTypes ELSE FALSE

IsDoorLine(line) == IF "isDoor" \in DOMAIN line THEN line.isDoor ELSE FALSE

\* the loop body pushing a solid line for every linedef with two vertices
WallLinesAllSolid(map, i) ==
    LET linedef == At(map.linedefs, i)
    IN  IF ~Has(map.vertexes, linedef.startVertex) \/ ~Has(map.vertexes, linedef.endVertex)
        THEN Returned(<<>>)
        ELSE Returned(<< [x1 |-> At(map.vertexes, linedef.startVertex).x,
                          y1 |-> At(map.vertexes, linedef.startVertex).y,
                          x2 |-> At(map.vertexes, linedef.endVertex).x,
                          y2 |-> At(map.vertexes, linedef.endVertex).y] >>)

\* one iteration of the loop of buildWalls for linedef i: the collision
\* lines it pushes, or TypeError from reading .sector of undefined
WallLines(map, i) ==
    LET linedef == At(map.linedefs, i)
        v1 == At(map.vertexes, linedef.startVertex)
        v2 == At(map.vertexes, linedef.endVertex)
        isTwoSided == linedef.backSidedef # -1
        sidedef == At(map.sidedefs, linedef.frontSidedef)
        backSidedef == At(map.sidedefs, linedef.backSidedef)
    IN  IF ~Has(map.vertexes, linedef.startVertex) \/ ~Has(map.vertexes, linedef.endVertex)
        THEN Returned(<<>>)
        ELSE IF linedef.frontSidedef = -1 THEN Returned(<<>>)
        ELSE IF ~Has(map.sidedefs, linedef.frontSidedef) THEN TypeError
        ELSE IF ~Has(map.sectors, sidedef.sector) THEN Returned(<<>>)
        ELSE IF isTwoSided
        THEN IF ~Has(map.sidedefs, linedef.backSidedef) THEN TypeError
             ELSE IF ~Has(map.sectors, backSidedef.sector) THEN Returned(<<>>)
             ELSE IF IncludesSpecial(linedef)
             THEN Returned(<< [x1 |-> v1.x, y1 |-> v1.y, x2 |-> v2.x, y2 |-> v2.y,
                               isDoor |-> TRUE, special |-> linedef.special,
                               linedefIndex |-> i] >>)
             ELSE Returned(<<>>)
        ELSE Returned(<< [x1 |-> v1.x, y1 |-> v1.y, x2 |-> v2.x, y2 |-> v2.y] >>)

RECURSIVE buildWalls(_, _, _)
buildWalls(map, i, lines) ==
    IF i >= Len(map.linedefs) THEN Returned(lines)
    ELSE LET w == WallLines(map, i)
         IN  IF IsThrow(w) THEN w ELSE buildWalls(map, i + 1, lines \o w.value)

----------------------------------------------------------------------------
(* MapRenderer.getSectorPolygon and getSectorPolygonFallback *)

SidedefInSector(map, side, sectorIndex) ==
    side # -1 /\ Has(map.sidedefs, side) /\ At(map.sidedefs, side).sector = sectorIndex

\* the sectorLines of a sector: front reference first, then back reference
RECURSIVE SectorLines(_, _, _)
SectorLines(map, sectorIndex, i) ==
    IF i >= Len(map.linedefs) THEN <<>>
    ELSE LET linedef == At(map.linedefs, i)
             f == IF SidedefInSector(map, linedef.frontSidedef, sectorIndex)
                  THEN << [linedef |-> linedef, index |-> i, forward |-> TRUE] >>
                  ELSE <<>>
             b == IF SidedefInSector(map, linedef.backSidedef, sectorIndex)
                  THEN << [linedef |-> linedef, index |-> i, forward |-> FALSE] >>
                  ELSE <<>>
         IN  f \o b \o SectorLines(map, sectorIndex, i + 1)

\* LineStartV without the traversal direction
LineStartVIgnoreDirection(line) == line.linedef.startVertex

LineStartV(line) ==
    IF line.forward THEN line.linedef.startVertex ELSE line.linedef.endVertex

LineEndV(line) ==
    IF line.forward THEN line.linedef.endVertex ELSE line.linedef.startVertex

Point(v) == [x |-> v.x, y |-> v.y]

\* the search for the next line without the test of used
RECURSIVE NextConnectedAnyLine(_, _, _, _)
NextConnectedAnyLine(sl, used, currentEndVertex, i) ==
    IF i > Len(sl) THEN 0
    ELSE IF LineStartV(sl[i]) = currentEndVertex THEN i
    ELSE NextConnectedAnyLine(sl, used, currentEndVertex, i + 1)

\* the first unused line that starts at the chain's running end vertex, 0 if none
RECURSIVE NextConnected(_, _, _, _)
NextConnected(sl, used, currentEndVertex, i) ==
    IF i > Len(sl) THEN 0
    ELSE IF i \notin used /\ LineStartV(sl[i]) = currentEndVertex THEN i
    ELSE NextConnected(sl, used, currentEndVertex, i + 1)

\* the while loop of getSectorPolygon
RECURSIVE ChainLoop(_, _, _, _, _, _)
ChainLoop(map, sl, used, points, currentEndVertex, iterations) ==
    IF ~(Cardinality(used) < Len(sl) /\ iterations < Len(sl) * 2)
    THEN [points |-> points, used |-> used, iterations |-> iterations,
          currentEndVertex |-> currentEndVertex]
    ELSE LET i == NextConnected(sl, used, currentEndVertex, 1)
         IN  IF i = 0
             THEN [points |-> points, used |-> used, iterations |-> iterations + 1,
                   currentEndVertex |-> currentEndVertex]
             ELSE ChainLoop(map, sl, used \cup {i},
                            IF Has(map.vertexes, LineStartV(sl[i]))
                            THEN Append(points, Point(At(map.vertexes, LineStartV(sl[i]))))
                            ELSE points,
                            LineEndV(sl[i]), iterations + 1)

\* the Map keyed by "x,y": the distinct points in insertion order
RECURSIVE UniquePoints(_, _, _, _)
UniquePoints(map, sl, i, acc) ==
    IF i > Len(sl) THEN acc
    ELSE LET a == sl[i].linedef.startVertex
             b == sl[i].linedef.endVertex
             acc1 == IF Has(map.vertexes, a) /\ Point(At(map.vertexes, a)) \notin Range(acc)
                     THEN Append(acc, Point(At(map.vertexes, a))) ELSE acc
             acc2 == IF Has(map.vertexes, b) /\ Point(At(map.vertexes, b)) \notin Range(acc1)
                     THEN Append(acc1, Point(At(map.vertexes, b))) ELSE acc1
         IN  UniquePoints(map, sl, i + 1, acc2)

RECURSIVE SumX(_)
SumX(ps) == IF ps = <<>> THEN 0 ELSE ps[1].x + SumX(Tail(ps))

RECURSIVE SumY(_)
SumY(ps) == IF ps = <<>> THEN 0 ELSE ps[1].y + SumY(Tail(ps))

\* Math.atan2(dy, dx) orders directions from -pi (exclusive) to pi: below
\* the axis, the positive axis and the origin (0), above the axis, the
\* negative axis (pi)
AngleClass(dx, dy) ==
    IF dy < 0 THEN 0 ELSE IF dy > 0 THEN 2 ELSE IF dx >= 0 THEN 1 ELSE 3

\* atan2(ay, ax) < atan2(by, bx), exactly
AngleLess(ax, ay, bx, by) ==
    \/ AngleClass(ax, ay) < AngleClass(bx, by)
    \/ /\ AngleClass(ax, ay) = AngleClass(bx, by)
       /\ AngleClass(ax, ay) \in {0, 2}
       /\ ax * by - ay * bx > 0

\* points.sort((a, b) => angleA - angleB) about the centroid (cx, cy) =
\* (sx / n, sy / n); the sort is stable.  Directions are scaled by n.
RECURSIVE InsertByAngle(_, _, _, _, _)
InsertByAngle(sorted, p, sx, sy, n) ==
    IF sorted = <<>> THEN <<p>>
    ELSE LET q == sorted[Len(sorted)]
         IN  IF AngleLess(n * p.x - sx, n * p.y - sy, n * q.x - sx, n * q.y - sy)
             THEN Append(InsertByAngle(SubSeq(sorted, 1, Len(sorted) - 1), p, sx, sy, n), q)
             ELSE Append(sorted, p)

RECURSIVE SortByAngle(_, _, _, _, _)
SortByAngle(ps, i, sx, sy, acc) ==
    IF i > Len(ps) THEN acc
    ELSE SortByAngle(ps, i + 1, sx, sy, InsertByAngle(acc, ps[i], sx, sy, Len(ps)))

getSectorPolygonFallback(map, sl) ==
    LET points == UniquePoints(map, sl, 1, <<>>)
    IN  IF Len(points) > 2
        THEN SortByAngle(points, 1, SumX(points), SumY(points), <<>>)
        ELSE points

\* points.length < 3 after chaining: fall back to the centroid sort
UsesFallback(points) == Len(points) < 3

getSectorPolygon(map, sectorIndex) ==
    LET sl == SectorLines(map, sectorIndex, 0)
    IN  IF Len(sl) = 0 THEN <<>>
        ELSE IF ~Has(map.vertexes, LineStartV(sl[1])) THEN <<>>
        ELSE LET chain == ChainLoop(map, sl, {1},
                                    << Point(At(map.vertexes, LineStartV(sl[1]))) >>,
                                    LineEndV(sl[1]), 0)
             IN  IF UsesFallback(chain.points)
                 THEN getSectorPolygonFallback(map, sl)
                 ELSE chain.points

\* the chaining of getSectorPolygon on its own: the collected lines and
\* the state of the loop when it ends
ChainOf(map, sectorIndex) ==
    LET sl == SectorLines(map, sectorIndex, 0)
    IN  IF Len(sl) = 0 \/ ~Has(map.vertexes, LineStartV(sl[1]))
        THEN [chained |-> FALSE, sectorLines |-> sl]
        ELSE [chained |-> TRUE, sectorLines |-> sl,
              chain |-> ChainLoop(map, sl, {1},
                                  << Point(At(map.vertexes, LineStartV(sl[1]))) >>,
                                  LineEndV(sl[1]), 0)]

\* the loop of buildFloorsAndCeilings without its skip of short polygons
RECURSIVE buildFloorsKeepShort(_, _)
buildFloorsKeepShort(map, i) ==
    IF i >= Len(map.sectors) THEN <<>>
    ELSE << [sectorIndex |-> i, polygon |-> getSectorPolygon(map, i),
             floorHeight |-> At(map.sectors, i).floorHeight,
             ceilingHeight |-> At(map.sectors, i).ceilingHeight] >>
         \o buildFloorsKeepShort(map, i + 1)

\* MapRenderer.buildFloorsAndCeilings: the floorSectors it stores
RECURSIVE buildFloors(_, _)
buildFloors(map, i) ==
    IF i >= Len(map.sectors) THEN <<>>
    ELSE LET polygon == getSectorPolygon(map, i)
             rest == buildFloors(map, i + 1)
         IN  IF Len(polygon) < 3 THEN rest
             ELSE << [sectorIndex |-> i, polygon |-> polygon,
                      floorHeight |-> At(map.sectors, i).floorHeight,
                      ceilingHeight |-> At(map.sectors, i).ceilingHeight] >> \o rest

\* 'F_SKY1'
SkyFlat == <<70, 95, 83, 75, 89, 49>>

\* the calls of createSectorFloorCeiling(polygon, height, texture,
\* isCeiling, i) that go with one stored floor sector and get past its
\* test of points.length: none for a texture 'F_SKY1'
SurfacesOf(map, floorSector) ==
    LET sector == At(map.sectors, floorSector.sectorIndex)
    IN  IF Len(floorSector.polygon) < 3 THEN <<>> ELSE
        (IF sector.floorTexture # SkyFlat
         THEN << [sectorIndex |-> floorSector.sectorIndex, points |-> floorSector.polygon,
                  height |-> sector.floorHeight, isCeiling |-> FALSE] >>
         ELSE <<>>)
        \o (IF sector.ceilingTexture # SkyFlat
            THEN << [sectorIndex |-> floorSector.sectorIndex, points |-> floorSector.polygon,
                     height |-> sector.ceilingHeight, isCeiling |-> TRUE] >>
            ELSE <<>>)

\* MapRenderer.buildFloorsAndCeilings: the surfaces it asks for, which
\* follow the push to floorSectors in the same iteration
RECURSIVE SurfacesOfAll(_, _, _)
SurfacesOfAll(map, fs, k) ==
    IF k > Len(fs) THEN <<>>
    ELSE SurfacesOf(map, fs[k]) \o SurfacesOfAll(map, fs, k + 1)

\* new MapRenderer(map, palette, wadParser): buildGeometry
NewMapRenderer(map) ==
    LET walls == buildWalls(map, 0, <<>>)
        floors == buildFloors(map, 0)
    IN  IF IsThrow(walls) THEN walls
        ELSE Returned([collisionLines |-> walls.value, floorSectors |-> floors,
                       geometry |-> SurfacesOfAll(map, floors, 1)])

----------------------------------------------------------------------------
(* Decoded maps as getMap returns them, written record by record *)

Vertex(x, y) == AsObject(4, <<x, y>>)

Linedef(startVertex, endVertex, lineType, frontSidedef, backSidedef) ==
    AsObject(2, <<startVertex, endVertex, 0, lineType, 0, frontSidedef, backSidedef>>)

Sidedef(sector) == AsObject(3, <<0, 0, <<45>>, <<45>>, <<45>>, sector>>)

Sector(floorHeight, ceilingHeight) ==
    AsObject(5, <<floorHeight, ceilingHeight, <<70>>, <<70>>, 255, 0, 0>>)

\* a sector open to the sky
SkySector(floorHeight, ceilingHeight) ==
    AsObject(5, <<floorHeight, ceilingHeight, <<70>>, SkyFlat, 255, 0, 0>>)

Thing(x, y, angle, type) == AsObject(1, <<x, y, angle, type, 7>>)

MapData(things, linedefs, sidedefs, vertexes, sectors) ==
    [things |-> things, linedefs |-> linedefs, sidedefs |-> sidedefs,
     vertexes |-> vertexes, sectors |-> sectors]

----------------------------------------------------------------------------
(* Game: spatial queries.  The player is the record                        *)
(* [x, y, z, verticalVelocity, onGround]: position.x/y/z (y is up, the map *)
(* y coordinate is -z), player.verticalVelocity and player.onGround.       *)

PlayerHeight == 41

PlayerRadius == 16

Gravity == 800

WalkSpeed == 200

SprintSpeed == 400

MaxStepHeight == 24

MinHeadRoom == 56

CeilingBuffer == 4

AbsoluteMinHeight == 0

DefaultCeiling == 512

\* the player state the Game constructor sets
NewPlayer == [x |-> 0, y |-> PlayerHeight, z |-> 0, verticalVelocity |-> 0, onGround |-> TRUE]

\* one edge of the ray-casting loop: polygon[i] and its predecessor polygon[j]
EdgeCrosses(x, y, pi, pj) ==
    /\ (pi.y > y) # (pj.y > y)
    /\ IF pj.y - pi.y > 0
       THEN (x - pi.x) * (pj.y - pi.y) < (pj.x - pi.x) * (y - pi.y)
       ELSE (x - pi.x) * (pj.y - pi.y) > (pj.x - pi.x) * (y - pi.y)

pointInPolygon(x, y, polygon) ==
    LET n == Len(polygon)
        crossings == {i \in 1..n :
                        EdgeCrosses(x, y, polygon[i], polygon[IF i = 1 THEN n ELSE i - 1])}
    IN  Cardinality(crossings) % 2 = 1

\* the first floor sector whose polygon contains the point, 0 if none
RECURSIVE FirstContaining(_, _, _, _)
FirstContaining(fs, x, y, i) ==
    IF i > Len(fs) THEN 0
    ELSE IF pointInPolygon(x, y, fs[i].polygon) THEN i
    ELSE FirstContaining(fs, x, y, i + 1)

\* dist(a) < dist(b) for the distances from (x, y) to the vertex centroids
\* of polygons a and b, compared as squares scaled by the vertex counts
CentroidCloser(x, y, a, b) ==
    LET na == Len(a)
        nb == Len(b)
        da == (na * x - SumX(a)) * (na * x - SumX(a)) + (na * y - SumY(a)) * (na * y - SumY(a))
        db == (nb * x - SumX(b)) * (nb * x - SumX(b)) + (nb * y - SumY(b)) * (nb * y - SumY(b))
    IN  da * nb * nb < db * na * na

\* the fallback loop: the first floor sector of minimal centroid distance
RECURSIVE NearestFrom(_, _, _, _, _)
NearestFrom(fs, x, y, i, best) ==
    IF i > Len(fs) THEN best
    ELSE IF best = 0 \/ CentroidCloser(x, y, fs[i].polygon, fs[best].polygon)
    THEN NearestFrom(fs, x, y, i + 1, i)
    ELSE NearestFrom(fs, x, y, i + 1, best)

\* getCurrentSector without the nearest-sector fallback
SectorAtNoFallback(fs, x, y) == FirstContaining(fs, x, y, 1)

\* Game.getCurrentSector at map point (x, y): index into floorSectors, 0 for null
SectorAt(fs, x, y) ==
    LET i == FirstContaining(fs, x, y, 1)
    IN  IF i # 0 THEN i ELSE NearestFrom(fs, x, y, 1, 0)

getCurrentSector(fs, p) == SectorAt(fs, p.x, -p.z)

getFloorHeightAt(fs, x, y) ==
    LET i == SectorAt(fs, x, y)
    IN  IF i = 0 THEN 0 ELSE fs[i].floorHeight

----------------------------------------------------------------------------
(* Numbers of the program are IEEE 754 doubles.  Where rounding can reach  *)
(* a result, a double is written [neg, m, e]: the value is m * 2^e,        *)
(* negated when neg, with 2^52 <= m < 2^53 or m = 0.  m and the exact      *)
(* intermediate results are naturals below 2^112 held as 8 limbs of 14     *)
(* bits, least significant first.  Operands are whole numbers below 2^28   *)
(* and divisors below 2^17, so that no limb operation leaves 32 bits.      *)
(* An operand is bound (x \in {operand}) where it is used more than once,  *)
(* so that it is computed once.                                            *)

BigZero == <<0, 0, 0, 0, 0, 0, 0, 0>>

BigOne == <<1, 0, 0, 0, 0, 0, 0, 0>>

\* a natural below 2^28 placed at limb at (1: units)
BigOfNat(n, at) ==
    [i \in 1..8 |-> IF i = at THEN n % 16384
                    ELSE IF i = at + 1 THEN (n \div 16384) % 16384
                    ELSE 0]

\* floor(m / 2^k)
BigShiftRight(m, k) ==
    [i \in 1..8 |->
        (IF i + (k \div 14) <= 8 THEN m[i + (k \div 14)] \div 2^(k % 14) ELSE 0)
        + (IF i + (k \div 14) + 1 <= 8
           THEN (m[i + (k \div 14) + 1] % 2^(k % 14)) * 2^(14 - (k % 14))
           ELSE 0)]

\* m * 2^k, below 2^112
BigShiftLeft(m, k) ==
    [i \in 1..8 |->
        (IF i - (k \div 14) >= 1 THEN (m[i - (k \div 14)] % 2^(14 - (k % 14))) * 2^(k % 14) ELSE 0)
        + (IF i - (k \div 14) - 1 >= 1
           THEN m[i - (k \div 14) - 1] \div 2^(14 - (k % 14))
           ELSE 0)]

\* bit p of m (0: units), and whether a bit below it is set
BigBit(m, p) == (m[(p \div 14) + 1] \div 2^(p % 14)) % 2

BigBitsBelow(m, p) ==
    \/ \E i \in 1..((p \div 14)) : m[i] # 0
    \/ m[(p \div 14) + 1] % 2^(p % 14) # 0

\* the number of bits of m: 0 for 0
BigLength(m) ==
    IF \A i \in 1..8 : m[i] = 0 THEN 0
    ELSE LET top == CHOOSE i \in 1..8 : m[i] # 0 /\ \A j \in (i + 1)..8 : m[j] = 0
         IN  14 * (top - 1) + (CHOOSE n \in 1..14 : 2^(n - 1) <= m[top] /\ m[top] < 2^n)

RECURSIVE BigLessFrom(_, _, _)
BigLessFrom(a, b, i) ==
    IF i = 0 THEN FALSE
    ELSE IF a[i] # b[i] THEN a[i] < b[i]
    ELSE BigLessFrom(a, b, i - 1)

BigLess(a, b) == BigLessFrom(a, b, 8)

\* limbs from column sums: each column keeps its low 14 bits and carries
\* the rest (a borrow when it is negative) to the next
RECURSIVE BigCarry(_, _, _, _)
BigCarry(columns, i, carry, acc) ==
    IF i > 8 THEN acc
    ELSE CHOOSE r \in {BigCarry(columns, i + 1, v \div 16384, Append(acc, v % 16384)) :
                          v \in {columns[i] + carry}} : TRUE

BigAdd(a, b) == BigCarry([i \in 1..8 |-> a[i] + b[i]], 1, 0, <<>>)

\* a - b for a >= b
BigSub(a, b) == BigCarry([i \in 1..8 |-> a[i] - b[i]], 1, 0, <<>>)

RECURSIVE BigColumn(_, _, _, _)
BigColumn(a, b, k, i) ==
    IF i > 4 THEN 0
    ELSE (IF k + 1 - i \in 1..4 THEN a[i] * b[k + 1 - i] ELSE 0) + BigColumn(a, b, k, i + 1)

\* a * b for a, b below 2^56
BigMul(a, b) == BigCarry([k \in 1..8 |-> BigColumn(a, b, k, 1)], 1, 0, <<>>)

\* quotient and remainder of m by a divisor below 2^17, limb i downwards
RECURSIVE BigDivFrom(_, _, _, _, _)
BigDivFrom(m, d, i, rem, acc) ==
    IF i = 0 THEN [quotient |-> acc, remainder |-> rem]
    ELSE CHOOSE r \in {BigDivFrom(m, d, i - 1, v % d, <<v \div d>> \o acc) :
                          v \in {rem * 16384 + m[i]}} : TRUE

\* m of 54 bits or more rounded to 53: to nearest, ties to even; the
\* exact value is m * 2^e, plus a positive part below 2^e when sticky
DoubleRoundLong(neg, m, e, sticky, drop) ==
    CHOOSE r \in
        {IF BigLength(rounded) > 53
         THEN [neg |-> neg, m |-> BigShiftRight(rounded, 1), e |-> e + drop + 1]
         ELSE [neg |-> neg, m |-> rounded, e |-> e + drop] :
            rounded \in
               {IF /\ BigBit(m, drop - 1) = 1
                   /\ (sticky \/ BigBitsBelow(m, drop - 1) \/ BigBit(m, drop) = 1)
                THEN BigAdd(BigShiftRight(m, drop), BigOne)
                ELSE BigShiftRight(m, drop)}} : TRUE

\* the double of the exact value m * 2^e for m of n bits
DoubleRoundOf(neg, m, e, sticky, n) ==
    IF n = 0 THEN [neg |-> neg, m |-> BigZero, e |-> 0]
    ELSE IF n <= 53 THEN [neg |-> neg, m |-> BigShiftLeft(m, 53 - n), e |-> e - (53 - n)]
    ELSE DoubleRoundLong(neg, m, e, sticky, n - 53)

DoubleRound(neg, exact, e, sticky) ==
    CHOOSE r \in {DoubleRoundOf(neg, m, e, sticky, BigLength(m)) : m \in {exact}} : TRUE

\* a whole number as a double
DoubleOf(n) == DoubleRound(n < 0, BigOfNat(IF n < 0 THEN -n ELSE n, 1), 0, FALSE)

\* n / d for whole numbers n and d > 0: 84 bits of the quotient
DoubleDiv(n, d) ==
    CHOOSE r \in {DoubleRound(n < 0, q.quotient, -84, q.remainder # 0) :
                    q \in {BigDivFrom(BigOfNat(IF n < 0 THEN -n ELSE n, 7), d, 8, 0, <<>>)}} :
        TRUE

DoubleMul(x, y) ==
    CHOOSE r \in {DoubleRound(a.neg # b.neg, product, a.e + b.e, FALSE) :
                    product \in {BigMul(a.m, b.m) : a \in {x}, b \in {y}},
                    a \in {x}, b \in {y}} : TRUE

\* a + b for a.e >= b.e: an operand 59 bits or more below the other one
\* does not reach its rounding
DoubleAddAligned(a, b) ==
    IF b.m = BigZero THEN a
    ELSE IF a.m = BigZero THEN b
    ELSE IF a.e - b.e > 58 THEN a
    ELSE CHOOSE r \in
            {IF a.neg = b.neg THEN DoubleRound(a.neg, BigAdd(wide, b.m), b.e, FALSE)
             ELSE IF BigLess(wide, b.m) THEN DoubleRound(b.neg, BigSub(b.m, wide), b.e, FALSE)
             ELSE IF wide = b.m THEN [neg |-> FALSE, m |-> BigZero, e |-> 0]
             ELSE DoubleRound(a.neg, BigSub(wide, b.m), b.e, FALSE) :
                wide \in {BigShiftLeft(a.m, a.e - b.e)}} : TRUE

DoubleAdd(x, y) ==
    CHOOSE r \in {IF a.e >= b.e THEN DoubleAddAligned(a, b) ELSE DoubleAddAligned(b, a) :
                    a \in {x}, b \in {y}} : TRUE

DoubleSub(x, y) == DoubleAdd(x, [y EXCEPT !.neg = ~y.neg])

DoubleLess(x, y) ==
    \E difference \in {DoubleSub(x, y)} : difference.neg /\ difference.m # BigZero

----------------------------------------------------------------------------
(* Game: collision of the player's circle with the collision lines *)

\* Game.circleLineCollision on whole coordinates.  t, closestX, closestY
\* and dist2 are doubles; for a segment parallel to an axis the rounding
\* of t does not reach dist2 (the other coordinate of the closest point is
\* exact and the squared distance along it a whole number), and the test
\* is evaluated in whole numbers, multiplied by length2.
circleLineCollision(cx, cy, radius, x1, y1, x2, y2) ==
    LET dx == x2 - x1
        dy == y2 - y1
        length2 == dx * dx + dy * dy
        dot == (cx - x1) * dx + (cy - y1) * dy
        d1 == (cx - x1) * (cx - x1) + (cy - y1) * (cy - y1)
        d2 == (cx - x2) * (cx - x2) + (cy - y2) * (cy - y2)
    IN  IF length2 = 0 THEN d1 < radius * radius
        ELSE IF dx = 0 \/ dy = 0
        THEN IF dot <= 0 THEN d1 < radius * radius
             ELSE IF dot >= length2 THEN d2 < radius * radius
             ELSE d1 * length2 - dot * dot < radius * radius * length2
        ELSE \E quotient \in {DoubleDiv(dot, length2)} :
             \E atMost1 \in {IF DoubleLess(DoubleOf(1), quotient)
                             THEN DoubleOf(1) ELSE quotient} :
             \E t \in {IF DoubleLess(atMost1, DoubleOf(0)) THEN DoubleOf(0) ELSE atMost1} :
             \E closestX \in {DoubleAdd(DoubleOf(x1), DoubleMul(t, DoubleOf(dx)))} :
             \E closestY \in {DoubleAdd(DoubleOf(y1), DoubleMul(t, DoubleOf(dy)))} :
             \E offX \in {DoubleSub(DoubleOf(cx), closestX)} :
             \E offY \in {DoubleSub(DoubleOf(cy), closestY)} :
             \E dist2 \in {DoubleAdd(DoubleMul(offX, offX), DoubleMul(offY, offY))} :
                 DoubleLess(dist2, DoubleOf(radius * radius))

checkCollision(cl, x, z) ==
    \E i \in 1..Len(cl) :
        circleLineCollision(x, -z, PlayerRadius, cl[i].x1, cl[i].y1, cl[i].x2, cl[i].y2)

----------------------------------------------------------------------------
(* Game: movement *)

\* Game.updatePlayerHeight
updatePlayerHeight(fs, loaded, p) ==
    LET at == getCurrentSector(fs, p)
    IN  IF ~loaded THEN p
        ELSE IF at = 0 THEN p
        ELSE LET floorHeight == fs[at].floorHeight
                 ceilingHeight == fs[at].ceilingHeight
                 heightDiff == floorHeight - (p.y - PlayerHeight)
                 absDiff == IF heightDiff < 0 THEN -heightDiff ELSE heightDiff
                 targetY == floorHeight + PlayerHeight
                 p1 == IF absDiff <= MaxStepHeight
                       THEN IF targetY <= ceilingHeight
                            THEN [p EXCEPT !.y = targetY, !.onGround = TRUE,
                                           !.verticalVelocity = 0]
                            ELSE p
                       ELSE IF heightDiff < 0 THEN [p EXCEPT !.onGround = FALSE]
                       ELSE p
                 minY == floorHeight + PlayerHeight
             IN  IF ceilingHeight - floorHeight < MinHeadRoom THEN p
                 ELSE IF p1.y < minY
                 THEN [p1 EXCEPT !.y = minY, !.verticalVelocity = 0, !.onGround = TRUE]
                 ELSE p1

\* the slide with the Z-only try made from the starting position
SlideZFromStart(cl, p, afterX, mv) ==
    IF ~checkCollision(cl, p.x, p.z + mv[2])
    THEN [afterX EXCEPT !.z = p.z + mv[2]]
    ELSE afterX

\* the slide of movePlayer: the position after the X-only and Z-only tries
SlideZFromCurrent(cl, p, afterX, mv) ==
    IF ~checkCollision(cl, afterX.x, afterX.z + mv[2])
    THEN [afterX EXCEPT !.z = afterX.z + mv[2]]
    ELSE afterX

\* movePlayer taking the X displacement untested when the full one is blocked
movePlayerCommitsX(cl, fs, loaded, p, mv) ==
    LET moved ==
            IF ~checkCollision(cl, p.x + mv[1], p.z + mv[2])
            THEN [p EXCEPT !.x = p.x + mv[1], !.z = p.z + mv[2]]
            ELSE SlideZFromCurrent(cl, p, [p EXCEPT !.x = p.x + mv[1]], mv)
    IN  updatePlayerHeight(fs, loaded, moved)

\* Game.movePlayer(moveVector), moveVector = <<x, z>>
movePlayer(cl, fs, loaded, p, mv) ==
    LET moved ==
            IF ~checkCollision(cl, p.x + mv[1], p.z + mv[2])
            THEN [p EXCEPT !.x = p.x + mv[1], !.z = p.z + mv[2]]
            ELSE LET afterX == IF ~checkCollision(cl, p.x + mv[1], p.z)
                               THEN [p EXCEPT !.x = p.x + mv[1]]
                               ELSE p
                 IN  SlideZFromCurrent(cl, p, afterX, mv)
    IN  updatePlayerHeight(fs, loaded, moved)

\* the floor checks without the ceiling clamp before them
ClampVerticalNoCeiling(p, minY, maxY) ==
    LET f == IF p.y < minY
             THEN [p EXCEPT !.y = minY, !.verticalVelocity = 0, !.onGround = TRUE]
             ELSE p
    IN  IF f.y < AbsoluteMinHeight + PlayerHeight
        THEN [f EXCEPT !.y = IF minY > AbsoluteMinHeight + PlayerHeight
                             THEN minY ELSE AbsoluteMinHeight + PlayerHeight,
                       !.verticalVelocity = 0, !.onGround = TRUE]
        ELSE f

\* the ceiling clamp and the floor check without the absolute minimum
ClampVerticalNoAbsoluteMinimum(p, minY, maxY) ==
    LET c == IF p.y >= maxY THEN [p EXCEPT !.y = maxY, !.verticalVelocity = 0] ELSE p
    IN  IF c.y < minY
        THEN [c EXCEPT !.y = minY, !.verticalVelocity = 0, !.onGround = TRUE]
        ELSE c

\* the ceiling clamp of applyVerticalMovement and the floor checks after it
ClampVertical(p, minY, maxY) ==
    LET c == IF p.y >= maxY THEN [p EXCEPT !.y = maxY, !.verticalVelocity = 0] ELSE p
        f == IF c.y < minY
             THEN [c EXCEPT !.y = minY, !.verticalVelocity = 0, !.onGround = TRUE]
             ELSE c
    IN  IF f.y < AbsoluteMinHeight + PlayerHeight
        THEN [f EXCEPT !.y = IF minY > AbsoluteMinHeight + PlayerHeight
                             THEN minY ELSE AbsoluteMinHeight + PlayerHeight,
                       !.verticalVelocity = 0, !.onGround = TRUE]
        ELSE f

\* applyVerticalMovement without the floor and ceiling checks
applyVerticalMovementNoChecks(fs, loaded, p, dy) ==
    [p EXCEPT !.y = p.y + dy, !.onGround = FALSE]

\* Game.applyVerticalMovement(delta): dy is verticalVelocity * delta
applyVerticalMovement(fs, loaded, p, dy) ==
    IF ~loaded /\ Len(fs) = 0
    THEN IF p.y < PlayerHeight
         THEN [p EXCEPT !.y = PlayerHeight, !.verticalVelocity = 0, !.onGround = TRUE]
         ELSE p
    ELSE LET at == getCurrentSector(fs, p)
             floorHeight == IF at # 0 THEN fs[at].floorHeight ELSE AbsoluteMinHeight
             ceilingHeight == IF at # 0 THEN fs[at].ceilingHeight ELSE DefaultCeiling
             minY == floorHeight + PlayerHeight
             y1 == p.y + dy
             landed == IF y1 <= minY
                       THEN [p EXCEPT !.y = minY, !.verticalVelocity = 0, !.onGround = TRUE]
                       ELSE [p EXCEPT !.y = y1, !.onGround = FALSE]
         IN  ClampVertical(landed, minY, ceilingHeight - CeilingBuffer)

----------------------------------------------------------------------------
(* Game.tryOpenDoor *)

UseRange == 64

\* the loop of tryOpenDoor over collisionLines[i..]: the index of the
\* closest door so far, 0 for null.  Distances are taken to twice the
\* midpoint from twice the player's map position (px2, py2), so that the
\* comparisons are the code's, scaled by 2; dir is the code's
\* (dirX, dirY) scaled by 5.
RECURSIVE ClosestDoor(_, _, _, _, _, _)
ClosestDoor(cl, px2, py2, dir, i, closest) ==
    IF i > Len(cl) THEN closest
    ELSE LET line == cl[i]
             toLineX == (line.x1 + line.x2) - px2
             toLineY == (line.y1 + line.y2) - py2
             dist2 == toLineX * toLineX + toLineY * toLineY
             closestX == (cl[closest].x1 + cl[closest].x2) - px2
             closestY == (cl[closest].y1 + cl[closest].y2) - py2
         IN  IF ~IsDoorLine(line) THEN ClosestDoor(cl, px2, py2, dir, i + 1, closest)
             ELSE IF dist2 > (2 * UseRange) * (2 * UseRange)
             THEN ClosestDoor(cl, px2, py2, dir, i + 1, closest)
             ELSE IF dir[1] * toLineX + dir[2] * toLineY < 0
             THEN ClosestDoor(cl, px2, py2, dir, i + 1, closest)
             ELSE IF closest = 0 \/ dist2 < closestX * closestX + closestY * closestY
             THEN ClosestDoor(cl, px2, py2, dir, i + 1, i)
             ELSE ClosestDoor(cl, px2, py2, dir, i + 1, closest)

\* collisionLines.splice(index, 1), index 1-based
Splice(cl, index) == [k \in 1..(Len(cl) - 1) |-> IF k < index THEN cl[k] ELSE cl[k + 1]]

\* tryOpenDoor removing the first collision line, door or not
tryOpenDoorAnyLine(cl, loaded, p, forward) ==
    IF ~loaded \/ Len(cl) = 0 THEN cl ELSE Splice(cl, 1)

\* Game.tryOpenDoor: the collision lines after it.  forward is the map
\* direction KeyW moves the player in at player.rotation.y = angle,
\* 5 * (-sin angle, cos angle); the code's facing direction
\* (dirX, dirY) = (sin angle, -cos angle) is its opposite.
tryOpenDoor(cl, loaded, p, forward) ==
    IF ~loaded THEN cl
    ELSE LET closestDoor == ClosestDoor(cl, 2 * p.x, 2 * (-p.z),
                                        <<-forward[1], -forward[2]>>, 1, 0)
         IN  IF closestDoor # 0 THEN Splice(cl, closestDoor) ELSE cl

----------------------------------------------------------------------------
(* States of the parts a specification leaves alone *)

\* the parser and the game, not constructed
IdleWad ==
    /\ wadFile = [tag |-> <<>>]
    /\ wadState = "new"
    /\ lumps = <<>>
    /\ lumpMap = EmptyMap
    /\ wadCall = [op |-> "none"]

IdleGame ==
    /\ mapData = 0
    /\ collisionLines = <<>>
    /\ floorSectors = <<>>
    /\ mapGeometry = <<>>
    /\ player = NewPlayer
    /\ isRunning = FALSE
    /\ spacePressed = FALSE
    /\ frames = 0
    /\ lastInput = [op |-> "none"]

IdlePoly ==
    /\ polyIn = [removed |-> -1]
    /\ polyOut = [kind |-> "none"]

\* no function run on its own, no MapRenderer, no animation frame requested
IdleOther ==
    /\ fnIn = [op |-> "none"]
    /\ fnOut = [kind |-> "none"]
    /\ renderer = [kind |-> "null"]
    /\ animation = [pending |-> 0, updates |-> 0]

\* new App(), before a container is loaded
\* new App(): nothing loaded
NewApp ==
    [wadParser |-> [kind |-> "null"], mapOptions |-> <<>>, mapSelect |-> <<>>,
     currentMap |-> [kind |-> "null"], game |-> [kind |-> "null"], status |-> "none"]

IdleApp ==
    /\ app = NewApp
    /\ appCall = [op |-> "none"]

IdleLocate ==
    /\ locateIn = [floorSectors |-> <<>>, x |-> 0, z |-> 0]
    /\ locateOut = [kind |-> "none"]

----------------------------------------------------------------------------
(* The files the parser is given *)

MaxLumps == 3

MaxLumpBytes == 61

WadTags == {Str_IWAD, Str_PWAD, Str_XWAD}

\* raw 8-byte name fields: null-padded, with trailing white space, and with
\* bytes after the first null
RawNames ==
    {Pad8(Str_E1M1), Pad8(Str_E1M2), Pad8(Str_THINGS), Pad8(Str_VERTEXES),
     Str_THINGS \o <<32, 0>>, Str_THINGS \o <<0, 88>>}

\* a directory entry's raw name and size: a map marker is empty, any other
\* lump is empty or holds whole records (20 bytes: 2 things, 5 vertexes)
NameEntries ==
    {<<name, size>> :
        name \in RawNames, size \in {0, 20}} \ ({Pad8(Str_E1M1), Pad8(Str_E1M2)} \X {20})

\* directories of up to MaxLumps entries, any names in any order
NameFiles ==
    UNION {
        {MakeFile(Str_IWAD, [i \in 1..n |-> e[i][1]], [i \in 1..n |-> e[i][2]], 7) :
            e \in [1..n -> NameEntries]}
        : n \in 1..MaxLumps}

\* the three header tags on one directory
TagFiles ==
    {MakeFile(tag, <<Pad8(Str_E1M1), Pad8(Str_THINGS)>>, <<0, 20>>, 7) : tag \in WadTags}

\* one map block, E1M1 and its eight sub-lumps of one record each, but for
\* sub-lump k, which has any byte length up to MaxLumpBytes
SizeFiles ==
    {MakeFile(Str_IWAD,
              <<Pad8(Str_E1M1)>> \o [i \in 1..8 |-> Pad8(SubLumpNames[i])],
              <<0>> \o [i \in 1..8 |-> IF i = k THEN s ELSE RecordSizes[i]],
              seed) :
        k \in 1..8, s \in 0..MaxLumpBytes, seed \in ByteSeeds}

WadFiles == NameFiles \cup TagFiles \cup SizeFiles

QueryNames == {Str_E1M1, Str_E1M2, Str_THINGS, Str_VERTEXES, Str_SEGS}

----------------------------------------------------------------------------
(* The parser as a state machine: construction, then queries *)

InitWad ==
    /\ wadFile \in WadFiles
    /\ wadState = "new"
    /\ lumps = <<>>
    /\ lumpMap = EmptyMap
    /\ wadCall = [op |-> "none"]
    /\ IdlePoly
    /\ IdleGame
    /\ IdleLocate
    /\ IdleApp
    /\ IdleOther

\* new WADParser(arrayBuffer): the constructor runs parse()
Construct ==
    /\ wadState = "new"
    /\ IF HeaderOk(wadFile)
       THEN LET d == ParseDirectory(wadFile.dir, 1, <<>>, EmptyMap)
            IN  /\ wadState' = "parsed"
                /\ lumps' = d.lumps
                /\ lumpMap' = d.lumpMap
       ELSE /\ wadState' = "error"
            /\ UNCHANGED <<lumps, lumpMap>>
    /\ UNCHANGED <<wadFile, wadCall, polyVars, locateVars, gameVars, appVars, otherVars>>

GetLump(name) ==
    /\ wadState = "parsed"
    /\ wadCall' = [op |-> "getLump", name |-> name, lump |-> getLump(lumpMap, name)]
    /\ UNCHANGED <<wadFile, wadState, lumps, lumpMap, polyVars, locateVars, gameVars, appVars, otherVars>>

GetMap(mapName) ==
    /\ wadState = "parsed"
    /\ wadCall' = [op |-> "getMap", name |-> mapName,
                   result |-> getMap(wadFile, lumps, mapName)]
    /\ UNCHANGED <<wadFile, wadState, lumps, lumpMap, polyVars, locateVars, gameVars, appVars, otherVars>>

NextWad ==
    \/ Construct
    \/ \E name \in QueryNames : GetLump(name)
    \/ \E name \in QueryNames : GetMap(name)

SpecWad == InitWad /\ [][NextWad]_vars

----------------------------------------------------------------------------
(* Claims on the container decoder *)

\* C1 (as stated): the name lookup returns the entry that comes first in
\* directory order among the entries of that name.
C1_LookupReturnsFirst ==
    wadCall.op = "getLump" => wadCall.lump = FirstNamed(lumps, wadCall.name, 1)

\* C1 (amended): the name lookup returns the entry that comes LAST in
\* directory order among the entries of that name (undefined when there is
\* none); every earlier entry of that name is reachable only by position.
C1_LookupReturnsLast ==
    wadCall.op = "getLump" =>
        LET same == IndicesNamed(lumps, wadCall.name)
        IN  IF same = {} THEN wadCall.lump = 0
            ELSE /\ wadCall.lump \in same
                 /\ \A i \in same : i <= wadCall.lump

\* a lookup of a name that two or more directory entries carry
C1_Witness ==
    /\ wadCall.op = "getLump"
    /\ Cardinality(IndicesNamed(lumps, wadCall.name)) >= 2
    /\ wadCall.lump # FirstNamed(lumps, wadCall.name, 1)

\* the sub-lump of category k in the block of the map asked for, 0 if none
CategoryLump(ls, mapName, k) ==
    LET mapIndex == FirstNamed(ls, mapName, 1)
    IN  IF mapIndex = 0 THEN 0
        ELSE LET at == FindLump(MapLumps(ls, mapIndex), SubLumpNames[k], 1)
             IN  IF at = 0 THEN 0 ELSE mapIndex + at - 1

Truncated(ls, mapName, k) ==
    LET at == CategoryLump(ls, mapName, k)
    IN  at # 0 /\ ls[at].size % RecordSizes[k] # 0

\* C2 (as stated): when a sub-lump's byte length is not a multiple of its
\* record size, getMap still returns the map, that category is the empty
\* sequence and no read fails in the middle of a record.
C2_TruncatedDegradesToEmpty ==
    wadCall.op = "getMap" =>
        \A k \in 1..8 :
            Truncated(lumps, wadCall.name, k) =>
                /\ wadCall.result.kind = "ok"
                /\ wadCall.result.value.data[MapCategories[k]] = <<>>

----------------------------------------------------------------------------
(* The maps the game is given: corridors of rectangular sectors in a row   *)
(* along x, each SectorWidth wide and CorridorDepth deep, closed by        *)
(* one-sided walls and joined by two-sided lines.  Sector i has the        *)
(* corners b(i), b(i+1) on y = 0 and t(i), t(i+1) on y = CorridorDepth;    *)
(* vertex b(i) has index i and t(i) index n + 1 + i.                       *)

SectorWidth == 48

CorridorDepth == 64

\* the linedefs of sector i of n: [left end wall,] bottom wall, the line to
\* the next sector (of type joinType[i + 1]) or the right end wall, top wall
CorridorLines(i, n, joinType) ==
    (IF i = 0 THEN << Linedef(n + 1, 0, 0, 0, -1) >> ELSE <<>>)
    \o << Linedef(i, i + 1, 0, i, -1) >>
    \o (IF i < n - 1
        THEN << Linedef(i + 1, n + 2 + i, joinType[i + 1], i, i + 1) >>
        ELSE << Linedef(n, 2 * n + 1, 0, n - 1, -1) >>)
    \o << Linedef(n + 2 + i, n + 1 + i, 0, i, -1) >>

RECURSIVE CorridorLinedefs(_, _, _)
CorridorLinedefs(i, n, joinType) ==
    IF i >= n THEN <<>>
    ELSE CorridorLines(i, n, joinType) \o CorridorLinedefs(i + 1, n, joinType)

\* the length of a jamb: a one-sided wall of sector 0 from b(1) into the
\* corridor, along the line that joins sectors 0 and 1
JambLength == 16

\* heights[i] = <<floorHeight, ceilingHeight>> of sector i - 1
Corridor(heights, joinType, things, jamb) ==
    LET n == Len(heights)
    IN  MapData(things,
                CorridorLinedefs(0, n, joinType)
                    \o (IF jamb THEN << Linedef(1, 2 * n + 2, 0, 0, -1) >> ELSE <<>>),
                [i \in 1..n |-> Sidedef(i - 1)],
                [i \in 1..(2 * n + 2) |->
                    IF i <= n + 1 THEN Vertex((i - 1) * SectorWidth, 0)
                    ELSE Vertex((i - n - 2) * SectorWidth, CorridorDepth)]
                    \o (IF jamb THEN << Vertex(SectorWidth, JambLength) >> ELSE <<>>),
                [i \in 1..n |-> Sector(heights[i][1], heights[i][2])])

\* a map whose only sector is bounded by a single linedef, so that its
\* reconstruction has 2 points, with a linedef to a vertex and a linedef
\* of a sector that the map does not have
SliverMap ==
    MapData(<< Thing(8, 8, 0, 1) >>,
            << Linedef(0, 1, 0, 0, -1), Linedef(0, 9, 0, 0, -1), Linedef(1, 0, 0, 1, -1) >>,
            << Sidedef(0), Sidedef(5) >>,
            << Vertex(0, 0), Vertex(SectorWidth, 0) >>,
            << Sector(0, 128) >>)

\* two rooms side by side with a sector of a single linedef between them in
\* sector order: sector 0 is a closed loop, sector 1 has only the bottom
\* wall of the second room, sector 2 is the second room without that wall
MixedMap ==
    MapData(<< Thing(24, 32, 0, 1) >>,
            << Linedef(3, 0, 0, 0, -1), Linedef(0, 1, 0, 0, -1),
               Linedef(1, 2, 0, 0, 2), Linedef(2, 3, 0, 0, -1),
               Linedef(1, 4, 0, 1, -1), Linedef(4, 5, 0, 2, -1),
               Linedef(5, 2, 0, 2, -1) >>,
            << Sidedef(0), Sidedef(1), Sidedef(2) >>,
            << Vertex(0, 0), Vertex(SectorWidth, 0),
               Vertex(SectorWidth, CorridorDepth), Vertex(0, CorridorDepth),
               Vertex(2 * SectorWidth, 0), Vertex(2 * SectorWidth, CorridorDepth) >>,
            << Sector(0, 128), Sector(32, 64), SkySector(8, 128) >>)

\* 1: steps of 16 and of 40, the first join a door line (type 1) with a jamb;
\* 2: a 56-high floor between a room with a 90-high ceiling and rooms with
\*    52 and 40 units of headroom; 3: one room with its floor below 0;
\* 4, 5: one room bounded by 4 one-sided linedefs, no things, with its floor
\*    at 0 and below 0; 6: no sector that can be reconstructed; 7: a sector
\*    that cannot be reconstructed between two that can
GameMaps ==
    << Corridor(<< <<0, 128>>, <<16, 128>>, <<56, 128>> >>, <<1, 0>>,
                << Thing(24, 32, 90, 1) >>, TRUE),
       Corridor(<< <<0, 90>>, <<56, 128>>, <<48, 100>>, <<0, 40>> >>, <<0, 0, 0>>,
                << Thing(2014, 0, 0, 2014), Thing(72, 32, 0, 1) >>, FALSE),
       Corridor(<< <<-64, 0>> >>, <<>>, << Thing(24, 32, 0, 1) >>, FALSE),
       Corridor(<< <<0, 128>> >>, <<>>, <<>>, FALSE),
       Corridor(<< <<-64, 128>> >>, <<>>, <<>>, FALSE),
       SliverMap,
       MixedMap >>

----------------------------------------------------------------------------
(* The game as a state machine: App.loadMap, Game.start, animation frames *)

\* the clamped frame time Math.min(clock.getDelta(), 0.1) in units of
\* 1 / FramesPerSecond s, and the frame times drawn
FramesPerSecond == 20

MaxDelta == FramesPerSecond \div 10

\* unit directions scaled by 5: player.rotation.y is set by the mouse to a
\* direction with rational sine and cosine, one movement key is held
Directions ==
    {<<5, 0>>, <<-5, 0>>, <<0, 5>>, <<0, -5>>,
     <<3, 4>>, <<3, -4>>, <<-3, 4>>, <<-3, -4>>}

\* moveVector after normalize, applyEuler and multiplyScalar(moveSpeed * delta)
MoveVectors(d) ==
    {<<(dir[1] * speed * d) \div (5 * FramesPerSecond),
       (dir[2] * speed * d) \div (5 * FramesPerSecond)>> :
        dir \in Directions, speed \in {WalkSpeed, SprintSpeed}}

\* the animation frames a run is followed for
MaxFrames == 3

\* MapRenderer.getPlayerStart: index of the first thing of type 1, 0 if none
RECURSIVE PlayerStart(_, _)
PlayerStart(things, i) ==
    IF i > Len(things) THEN 0
    ELSE IF things[i].type = 1 THEN i
    ELSE PlayerStart(things, i + 1)

\* Game.loadMap setting the position only
SpawnPlayerKeepsMotion(map, fs, p) ==
    LET at == PlayerStart(map.things, 1)
    IN  IF at # 0
        THEN [p EXCEPT !.x = map.things[at].x,
                       !.y = getFloorHeightAt(fs, map.things[at].x, map.things[at].y)
                                 + PlayerHeight,
                       !.z = -map.things[at].y]
        ELSE IF Len(fs) > 0
        THEN [p EXCEPT !.x = 0, !.y = fs[1].floorHeight + PlayerHeight, !.z = 0]
        ELSE [p EXCEPT !.x = 0, !.y = PlayerHeight, !.z = 0]

\* the player after Game.loadMap
SpawnPlayer(map, fs, p) ==
    LET at == PlayerStart(map.things, 1)
    IN  IF at # 0
        THEN [x |-> map.things[at].x,
              y |-> getFloorHeightAt(fs, map.things[at].x, map.things[at].y) + PlayerHeight,
              z |-> -map.things[at].y,
              verticalVelocity |-> 0, onGround |-> TRUE]
        ELSE IF Len(fs) > 0
        THEN [x |-> 0, y |-> fs[1].floorHeight + PlayerHeight, z |-> 0,
              verticalVelocity |-> 0, onGround |-> TRUE]
        ELSE [x |-> 0, y |-> PlayerHeight, z |-> 0,
              verticalVelocity |-> 0, onGround |-> TRUE]

\* Game.update(delta): gravity, movePlayer when a movement key is held
\* (move = <<x, z>>, or <<>> with no key), applyVerticalMovement
update(cl, fs, loaded, p, d, move) ==
    LET g == [p EXCEPT !.verticalVelocity = p.verticalVelocity - (Gravity * d) \div FramesPerSecond]
        m == IF move = <<>> THEN g ELSE movePlayer(cl, fs, loaded, g, move)
    IN  applyVerticalMovement(fs, loaded, m, (m.verticalVelocity * d) \div FramesPerSecond)

InitGame ==
    /\ IdleWad
    /\ IdlePoly
    /\ IdleGame
    /\ IdleLocate
    /\ IdleApp
    /\ IdleOther

\* new MapRenderer(mapData, palette, wadParser) for each map
MapRenderers == [m \in 1..Len(GameMaps) |-> NewMapRenderer(GameMaps[m])]

\* App.loadMap(mapName): new MapRenderer, then Game.loadMap
LoadMap(m) ==
    LET r == MapRenderers[m]
    IN  /\ ~IsThrow(r)
        /\ mapData' = m
        /\ collisionLines' = r.value.collisionLines
        /\ floorSectors' = r.value.floorSectors
        /\ mapGeometry' = r.value.geometry
        /\ player' = SpawnPlayer(GameMaps[m], r.value.floorSectors, player)
        /\ lastInput' = [op |-> "loadMap", map |-> m, previous |-> mapData,
                         grounded |-> player.onGround /\ player.verticalVelocity = 0]
        /\ UNCHANGED <<isRunning, spacePressed, frames, wadVars, polyVars, locateVars, appVars, otherVars>>

\* the height correction of Game.start
CorrectSpawnHeight(fs, p) ==
    LET at == getCurrentSector(fs, p)
    IN  IF at # 0 /\ p.y < fs[at].floorHeight + PlayerHeight
        THEN [p EXCEPT !.y = fs[at].floorHeight + PlayerHeight]
        ELSE p

\* App.startGame: Game.start, whose call of animate() runs an update at
\* once, the clock just restarted
StartGame(move) ==
    /\ mapData # 0
    /\ frames < MaxFrames
    /\ isRunning' = TRUE
    /\ frames' = frames + 1
    /\ player' = update(collisionLines, floorSectors, TRUE,
                        CorrectSpawnHeight(floorSectors, player), 0, move)
    /\ spacePressed' = FALSE
    /\ lastInput' = [op |-> "start", delta |-> 0, move |-> move, from |-> player]
    /\ UNCHANGED <<mapData, collisionLines, floorSectors, mapGeometry, wadVars, polyVars, locateVars, appVars, otherVars>>

\* an animation frame with the space bar up: Game.animate, update(delta)
Frame(d, move) ==
    /\ isRunning
    /\ frames < MaxFrames
    /\ frames' = frames + 1
    /\ spacePressed' = FALSE
    /\ player' = update(collisionLines, floorSectors, mapData # 0, player, d, move)
    /\ lastInput' = [op |-> "frame", delta |-> d, move |-> move, from |-> player]
    /\ UNCHANGED <<mapData, collisionLines, floorSectors, mapGeometry, isRunning, wadVars, polyVars, locateVars, appVars, otherVars>>

\* the directions the mouse has turned the player to when the space bar
\* goes down: the direction KeyW moves in, in map coordinates, scaled by 5
UseDirections == {<<5, 0>>, <<-5, 0>>, <<0, 5>>, <<0, -5>>}

\* an animation frame with the space bar newly down and no movement key:
\* update(delta) calls tryOpenDoor before gravity and vertical movement
Use(d, forward) ==
    /\ isRunning
    /\ ~spacePressed
    /\ frames < MaxFrames
    /\ frames' = frames + 1
    /\ spacePressed' = TRUE
    /\ collisionLines' = tryOpenDoor(collisionLines, mapData # 0, player, forward)
    /\ player' = update(collisionLines', floorSectors, mapData # 0, player, d, <<>>)
    /\ lastInput' = [op |-> "use", delta |-> d, move |-> <<>>, from |-> player,
                     forward |-> forward, lines |-> collisionLines]
    /\ UNCHANGED <<mapData, floorSectors, mapGeometry, isRunning, wadVars, polyVars, locateVars, appVars, otherVars>>

NextGame ==
    \/ \E m \in 1..Len(GameMaps) : LoadMap(m)
    \/ \E move \in {<<>>, <<0, 0>>} : StartGame(move)
    \/ \E d \in 0..MaxDelta : \E move \in {<<>>} \cup MoveVectors(d) : Frame(d, move)
    \/ \E d \in 0..MaxDelta : \E forward \in UseDirections : Use(d, forward)

SpecGame == InitGame /\ [][NextGame]_vars

----------------------------------------------------------------------------
(* Claims about the collision set and the player's movement *)

\* linedef i of the map is two-sided, both sidedefs resolving to a sector
TwoSided(map, i) ==
    LET linedef == At(map.linedefs, i)
    IN  /\ linedef.frontSidedef # -1
        /\ linedef.backSidedef # -1
        /\ Has(map.sidedefs, linedef.frontSidedef)
        /\ Has(map.sidedefs, linedef.backSidedef)
        /\ Has(map.sectors, At(map.sidedefs, linedef.frontSidedef).sector)
        /\ Has(map.sectors, At(map.sidedefs, linedef.backSidedef).sector)

\* C3 (as stated): once a map is loaded, every two-sided linedef whose
\* decoded line type is a door special is in the collision set as a line
\* flagged isDoor (no door is toggled open in these runs).
C3_DoorLinesCollidable ==
    mapData # 0 =>
        \A i \in 0..(Len(GameMaps[mapData].linedefs) - 1) :
            (/\ TwoSided(GameMaps[mapData], i)
             /\ At(GameMaps[mapData].linedefs, i).lineType \in DoorTypes)
            => \E k \in 1..Len(collisionLines) :
                   /\ IsDoorLine(collisionLines[k])
                   /\ collisionLines[k].linedefIndex = i

\* the last call ran update with a movement key held
Moved == lastInput.op \in {"start", "frame"} /\ lastInput.move # <<>>

\* the last call ran update
Ticked == lastInput.op \in {"start", "frame", "use"}

\* the last movePlayer found the full displacement blocked
FullBlocked ==
    /\ Moved
    /\ checkCollision(collisionLines, lastInput.from.x + lastInput.move[1],
                                      lastInput.from.z + lastInput.move[2])

XApplied == player.x = lastInput.from.x + lastInput.move[1]

ZApplied == player.z = lastInput.from.z + lastInput.move[2]

\* the player's circle touches no line of the active collision set
Clear == ~checkCollision(collisionLines, player.x, player.z)

\* C29: within one map load, a tick, move or door opening that starts
\* with the player clear of every active collision line ends with the
\* player clear of every active collision line; movePlayer changes the
\* horizontal position only to one for which checkCollision is false; and
\* a tick with no movement key leaves the horizontal position unchanged.
C29_NeverInsideALine ==
    [][Ticked' =>
          /\ Clear => Clear'
          /\ (player'.x # player.x \/ player'.z # player.z) => (Moved' /\ Clear')
          /\ lastInput'.move = <<>> => (player'.x = player.x /\ player'.z = player.z)]_vars

\* C29 witness: the second tick or later of a map load, whose full
\* displacement was blocked from a clear position and which slid the
\* player along one axis to a clear position
C29_Witness ==
    /\ frames >= 2
    /\ FullBlocked
    /\ ~checkCollision(collisionLines, lastInput.from.x, lastInput.from.z)
    /\ XApplied # ZApplied
    /\ Clear

\* C6 (as stated): when the full displacement collides, X is applied iff
\* the start displaced by X alone is free, and Z is applied iff the start
\* displaced by Z alone is free, each independently of the other.
C6_AxesIndependent ==
    FullBlocked =>
        /\ lastInput.move[1] # 0 =>
               (XApplied <=> ~checkCollision(collisionLines,
                                 lastInput.from.x + lastInput.move[1], lastInput.from.z))
        /\ lastInput.move[2] # 0 =>
               (ZApplied <=> ~checkCollision(collisionLines,
                                 lastInput.from.x, lastInput.from.z + lastInput.move[2]))

\* C6 (amended): when the full displacement collides, X is applied iff the
\* start displaced by X alone is free, and Z is applied iff the position
\* reached after the X decision, displaced by Z, is free; so once X has
\* been applied Z is refused, and Z is applied only when X was refused and
\* the start displaced by Z alone is free.
C6_ZTriedAfterX ==
    FullBlocked =>
        /\ lastInput.move[1] # 0 =>
               (XApplied <=> ~checkCollision(collisionLines,
                                 lastInput.from.x + lastInput.move[1], lastInput.from.z))
        /\ lastInput.move[2] # 0 =>
               (ZApplied <=> ~checkCollision(collisionLines,
                                 player.x, lastInput.from.z + lastInput.move[2]))
        /\ (lastInput.move[1] # 0 /\ lastInput.move[2] # 0) => ~(XApplied /\ ZApplied)

\* C6 witness: a blocked diagonal move at a corner where each axis alone is
\* free from the start: X was applied and Z refused
C6_Witness ==
    /\ FullBlocked
    /\ lastInput.move[1] # 0
    /\ lastInput.move[2] # 0
    /\ ~checkCollision(collisionLines, lastInput.from.x + lastInput.move[1], lastInput.from.z)
    /\ ~checkCollision(collisionLines, lastInput.from.x, lastInput.from.z + lastInput.move[2])
    /\ XApplied
    /\ ~ZApplied

\* the floor sector Game.getCurrentSector finds for a player, 0 for null
RegionOf(p) == getCurrentSector(floorSectors, p)

\* the last move took the player from one region to another
ChangedRegion ==
    /\ Moved
    /\ RegionOf(player) # 0
    /\ RegionOf(lastInput.from) # RegionOf(player)

\* C7 (as stated): a horizontal move never puts the player on top of a
\* floor more than 24 units above the height that supported the player
\* before the move (y - 41).
C7_NoClimbAboveStep ==
    (Moved /\ RegionOf(player) # 0) =>
        ~ (/\ floorSectors[RegionOf(player)].floorHeight
                  > (lastInput.from.y - PlayerHeight) + MaxStepHeight
           /\ player.y = floorSectors[RegionOf(player)].floorHeight + PlayerHeight)

\* C8 (as stated): a move never leaves the player's horizontal position
\* inside a region whose ceilingHeight - floorHeight is below 56.
C8_NeverInsideLowRegion ==
    Moved =>
        LET at == FirstContaining(floorSectors, player.x, -player.z, 1)
        IN  at # 0 =>
                floorSectors[at].ceilingHeight - floorSectors[at].floorHeight >= MinHeadRoom

\* C9 (as stated): a move that takes a Grounded player onto a region whose
\* floor is within 24 units of the supporting height ends the tick with
\* the player on that floor, Grounded, with zero vertical velocity; onto a
\* floor more than 24 units lower it ends the tick Airborne above that
\* floor with a downward velocity.
C9_StairStep ==
    (ChangedRegion /\ lastInput.from.onGround) =>
        LET floorHeight == floorSectors[RegionOf(player)].floorHeight
            diff == floorHeight - (lastInput.from.y - PlayerHeight)
        IN  /\ (diff <= MaxStepHeight /\ -diff <= MaxStepHeight) =>
                   /\ player.y = floorHeight + PlayerHeight
                   /\ player.onGround
                   /\ player.verticalVelocity = 0
            /\ -diff > MaxStepHeight =>
                   /\ player.y > floorHeight + PlayerHeight
                   /\ ~player.onGround
                   /\ player.verticalVelocity < 0

\* C10 (as stated): after every tick with a current region found, y is at
\* most the region's ceilingHeight - 4 and the vertical velocity is not
\* upward, whatever the region's ceiling-to-floor gap.
C10_BelowCeiling ==
    (Ticked /\ RegionOf(player) # 0) =>
        /\ player.y <= floorSectors[RegionOf(player)].ceilingHeight - CeilingBuffer
        /\ player.verticalVelocity <= 0

\* C10 (amended): after every tick with a current region found, the
\* vertical velocity is not upward and y is at most the greatest of
\* ceilingHeight - 4, floorHeight + 41 and the absolute minimum 0 + 41: the
\* floor checks run after the ceiling clamp and win over it.  In a region
\* with floorHeight >= 0 and a gap of at least 41 + 4, y is at most
\* ceilingHeight - 4.
C10_BelowCeilingUnlessFloorHigher ==
    (Ticked /\ RegionOf(player) # 0) =>
        LET floorHeight == floorSectors[RegionOf(player)].floorHeight
            ceilingHeight == floorSectors[RegionOf(player)].ceilingHeight
        IN  /\ player.verticalVelocity <= 0
            /\ \/ player.y <= ceilingHeight - CeilingBuffer
               \/ player.y <= floorHeight + PlayerHeight
               \/ player.y <= AbsoluteMinHeight + PlayerHeight
            /\ (floorHeight >= AbsoluteMinHeight
                /\ ceilingHeight - floorHeight >= PlayerHeight + CeilingBuffer)
               => player.y <= ceilingHeight - CeilingBuffer

\* C10 witness: a ceiling contact: the player came in higher than the
\* region's ceilingHeight - 4 and ends the tick clamped there, above the
\* floor, with zero vertical velocity
C10_Witness ==
    /\ Ticked
    /\ RegionOf(player) # 0
    /\ lastInput.from.y > floorSectors[RegionOf(player)].ceilingHeight - CeilingBuffer
    /\ player.y = floorSectors[RegionOf(player)].ceilingHeight - CeilingBuffer
    /\ player.y > floorSectors[RegionOf(player)].floorHeight + PlayerHeight
    /\ player.verticalVelocity = 0

\* C11: at the end of every tick with a map loaded, y is at least the
\* absolute minimum 0 + 41, and at least floorHeight + 41 of the region
\* point-location resolves (containing, nearest, or none when there is no
\* floor region).
C11_NeverBelowFloor ==
    (Ticked /\ mapData # 0) =>
        /\ player.y >= AbsoluteMinHeight + PlayerHeight
        /\ RegionOf(player) # 0 =>
               player.y >= floorSectors[RegionOf(player)].floorHeight + PlayerHeight

\* C11 witness: a tick that ended on the absolute minimum above a floor
\* below 0, and (in another load) a tick with no region resolved
C11_Witness ==
    /\ Ticked
    /\ mapData # 0
    /\ \/ /\ RegionOf(player) # 0
          /\ floorSectors[RegionOf(player)].floorHeight < AbsoluteMinHeight
          /\ lastInput.from.y < AbsoluteMinHeight + PlayerHeight
          /\ player.y = AbsoluteMinHeight + PlayerHeight
       \/ /\ RegionOf(player) = 0
          /\ lastInput.op = "frame"
          /\ player.y = AbsoluteMinHeight + PlayerHeight

\* a map with one region bounded by 4 one-sided linedefs and no things
IsOneRoom(map) ==
    /\ Len(map.sectors) = 1
    /\ Len(map.things) = 0
    /\ Len(map.linedefs) = 4
    /\ \A i \in 1..4 : /\ map.linedefs[i].backSidedef = -1
                       /\ map.linedefs[i].frontSidedef = 0

\* the player right after the load of map m
AfterLoad(m) == SpawnPlayer(GameMaps[m], MapRenderers[m].value.floorSectors, NewPlayer)

\* the load of a one-room map gave 1 floor region and 4 collision lines,
\* none of them a door
OneRoomBuilt ==
    (mapData # 0 /\ IsOneRoom(GameMaps[mapData])) =>
        /\ Len(floorSectors) = 1
        /\ Len(collisionLines) = 4
        /\ \A k \in 1..Len(collisionLines) : ~IsDoorLine(collisionLines[k])

\* a tick with no movement key and no use key, in a one-room map, by a
\* player who is as the load left them
IdleTickAfterLoad ==
    /\ mapData # 0
    /\ mapData' = mapData
    /\ IsOneRoom(GameMaps[mapData])
    /\ player = AfterLoad(mapData)
    /\ lastInput'.op \in {"start", "frame"}
    /\ lastInput'.move = <<>>

DoorAhead(i) ==
    LET map == GameMaps[mapData]
        linedef == At(map.linedefs, i)
        v1 == At(map.vertexes, linedef.startVertex)
        v2 == At(map.vertexes, linedef.endVertex)
        toLineX == (v1.x + v2.x) - 2 * lastInput.from.x
        toLineY == (v1.y + v2.y) - 2 * (-lastInput.from.z)
    IN  /\ TwoSided(map, i)
        /\ linedef.lineType \in DoorTypes
        /\ toLineX * toLineX + toLineY * toLineY <= (2 * UseRange) * (2 * UseRange)
        /\ lastInput.forward[1] * toLineX + lastInput.forward[2] * toLineY >= 0

\* C14 (as stated), the door lines being those the collision set is to
\* hold for the door linedefs of the map (C3): a use-action removes
\* exactly one line, an isDoor line of a door within range and ahead, and
\* removes nothing when there is no such door; never a line that is not a
\* door.
C14_UseOpensNearestDoor ==
    (lastInput.op = "use" /\ mapData # 0) =>
        LET doors == {i \in 0..(Len(GameMaps[mapData].linedefs) - 1) : DoorAhead(i)}
        IN  IF doors = {} THEN collisionLines = lastInput.lines
            ELSE \E k \in 1..Len(lastInput.lines) :
                    /\ IsDoorLine(lastInput.lines[k])
                    /\ lastInput.lines[k].linedefIndex \in doors
                    /\ collisionLines = Splice(lastInput.lines, k)

\* C15: within one map load the collision set only shrinks, and only by
\* door lines: every step that is not a map load leaves each solid line
\* in the set, in its order, and adds no line.
C15_CollisionSetOnlyLosesDoors ==
    [][lastInput'.op # "loadMap" =>
            \/ collisionLines' = collisionLines
            \/ \E k \in 1..Len(collisionLines) :
                    /\ IsDoorLine(collisionLines[k])
                    /\ collisionLines' = Splice(collisionLines, k)]_vars

\* C15 witness: a use-action, the last frame of a run in a loaded map with
\* solid walls, has left every line of the load in the set
C15_Witness ==
    /\ lastInput.op = "use"
    /\ mapData # 0
    /\ Len(collisionLines) >= 4
    /\ collisionLines = MapRenderers[mapData].value.collisionLines
    /\ frames = MaxFrames

OneSided(map, i) ==
    LET linedef == At(map.linedefs, i)
    IN  /\ linedef.frontSidedef # -1
        /\ linedef.backSidedef = -1
        /\ Has(map.vertexes, linedef.startVertex)
        /\ Has(map.vertexes, linedef.endVertex)
        /\ Has(map.sidedefs, linedef.frontSidedef)
        /\ Has(map.sectors, At(map.sidedefs, linedef.frontSidedef).sector)

\* C16: in the collision set built for a map, every one-sided linedef
\* whose vertices and front sector resolve has one solid line with its two
\* vertices as endpoints, and there are as many solid lines as such
\* linedefs: none comes from a two-sided linedef that is not a door, or
\* from a linedef that does not resolve.
C16_SolidLinesAreOneSided ==
    mapData # 0 =>
        LET map == GameMaps[mapData]
            oneSided == {i \in 0..(Len(map.linedefs) - 1) : OneSided(map, i)}
            solid == {k \in 1..Len(collisionLines) : ~IsDoorLine(collisionLines[k])}
        IN  /\ Cardinality(solid) = Cardinality(oneSided)
            /\ \A i \in oneSided :
                   \E k \in solid :
                       collisionLines[k] =
                           [x1 |-> At(map.vertexes, At(map.linedefs, i).startVertex).x,
                            y1 |-> At(map.vertexes, At(map.linedefs, i).startVertex).y,
                            x2 |-> At(map.vertexes, At(map.linedefs, i).endVertex).x,
                            y2 |-> At(map.vertexes, At(map.linedefs, i).endVertex).y]

\* C16 witness: a loaded map with a two-sided linedef that is not a door
\* among its one-sided ones
C16_Witness ==
    /\ mapData # 0
    /\ lastInput.op = "loadMap"
    /\ \E i \in 0..(Len(GameMaps[mapData].linedefs) - 1) :
           /\ TwoSided(GameMaps[mapData], i)
           /\ At(GameMaps[mapData].linedefs, i).lineType \notin DoorTypes
    /\ \E i \in 0..(Len(GameMaps[mapData].linedefs) - 1) : OneSided(GameMaps[mapData], i)
    /\ Len(collisionLines) > 0

\* the sectors of the map whose reconstruction, by chaining or by the
\* fallback, has at least 3 points
Reconstructed(map) ==
    {i \in 0..(Len(map.sectors) - 1) : Len(getSectorPolygon(map, i)) >= 3}

\* C17: after a map build every stored floor region has a polygon of at
\* least 3 points and the heights of its sector; there is exactly one
\* region for each sector whose reconstruction has at least 3 points, in
\* the order of the sectors; a sector whose reconstruction has fewer has
\* no region and no floor or ceiling surface and is never the answer of
\* point-location.
C17_FloorRegionsAreTheReconstructed ==
    mapData # 0 =>
        LET map == GameMaps[mapData]
        IN  /\ \A k \in 1..Len(floorSectors) :
                   /\ Len(floorSectors[k].polygon) >= 3
                   /\ floorSectors[k].sectorIndex \in Reconstructed(map)
                   /\ floorSectors[k].polygon = getSectorPolygon(map, floorSectors[k].sectorIndex)
                   /\ floorSectors[k].floorHeight =
                          At(map.sectors, floorSectors[k].sectorIndex).floorHeight
                   /\ floorSectors[k].ceilingHeight =
                          At(map.sectors, floorSectors[k].sectorIndex).ceilingHeight
            /\ Len(floorSectors) = Cardinality(Reconstructed(map))
            /\ \A k \in 1..(Len(floorSectors) - 1) :
                   floorSectors[k].sectorIndex < floorSectors[k + 1].sectorIndex
            /\ \A k \in 1..Len(mapGeometry) : mapGeometry[k].sectorIndex \in Reconstructed(map)
            /\ getCurrentSector(floorSectors, player) # 0 =>
                   floorSectors[getCurrentSector(floorSectors, player)].sectorIndex
                       \in Reconstructed(map)

\* C17 witness: a map is built in which a sector without a reconstruction
\* lies between two sectors that have one, and the player is located in
\* the later one
C17_Witness ==
    /\ mapData # 0
    /\ \E i \in 0..(Len(GameMaps[mapData].sectors) - 1) :
           /\ i \notin Reconstructed(GameMaps[mapData])
           /\ i - 1 \in Reconstructed(GameMaps[mapData])
           /\ i + 1 \in Reconstructed(GameMaps[mapData])
           /\ getCurrentSector(floorSectors, player) # 0
           /\ floorSectors[getCurrentSector(floorSectors, player)].sectorIndex = i + 1
    /\ Len(mapGeometry) > 0

\* the directory indices of the block of the map asked for: from the first
\* lump of that name up to the lump before the next map marker
BlockOf(ls, mapName) ==
    LET first == CHOOSE i \in 1..Len(ls) :
                     ls[i].name = mapName /\ \A j \in 1..(i - 1) : ls[j].name # mapName
        markers == {j \in (first + 1)..Len(ls) : IsMapName(ls[j].name)}
    IN  {i \in first..Len(ls) : \A j \in markers : i < j}

\* the sub-lumps of category k inside the block
SubLumpsIn(ls, mapName, k) == {i \in BlockOf(ls, mapName) : ls[i].name = SubLumpNames[k]}

\* C19: getMap(M) decodes every record category from the block of M only,
\* the lumps from the one named M up to the next map marker or the end of
\* the directory: the category is what the first sub-lump of its name
\* inside the block decodes to, and the empty sequence when the block has
\* none or a zero-length one, whatever lies before M or in a later block.
C19_MapDecodedFromOwnBlock ==
    (wadCall.op = "getMap" /\ wadCall.result.kind = "ok") =>
        \A k \in 1..8 :
            LET inBlock == SubLumpsIn(lumps, wadCall.name, k)
                first == CHOOSE i \in inBlock : \A j \in inBlock : i <= j
                decoded == wadCall.result.value.data[MapCategories[k]]
            IN  IF inBlock = {} THEN decoded = <<>>
                ELSE IF lumps[first].size = 0 THEN decoded = <<>>
                ELSE decoded = ParseRecords(wadFile, <<lumps[first]>>, k).value

\* C19 witness: getMap of a map whose block has no THINGS lump, or a
\* zero-length one, while a THINGS lump with records lies before the map
\* or in the block of a later map
C19_Witness ==
    /\ wadCall.op = "getMap"
    /\ wadCall.result.kind = "ok"
    /\ IsMapName(wadCall.name)
    /\ \A i \in SubLumpsIn(lumps, wadCall.name, 1) : lumps[i].size = 0
    /\ \E i \in 1..Len(lumps) :
           /\ i \notin BlockOf(lumps, wadCall.name)
           /\ lumps[i].name = Str_THINGS
           /\ lumps[i].size > 0
    /\ wadCall.result.value.data["things"] = <<>>

----------------------------------------------------------------------------
(* Record lumps byte by byte: one map block whose only sub-lump holds      *)
(* whole records with chosen field bytes, decoded by getMap and written    *)
(* back in the record layout.                                              *)

MaxRecords == 2

\* the two bytes of a 16-bit field, by turns within a record
IntPatterns ==
    { << <<0, 0>>, <<1, 0>> >>, << <<255, 255>>, <<0, 128>> >>, << <<52, 18>>, <<255, 127>> >> }

\* 8-byte name fields: full length, null-padded, empty, with a leading
\* space, with a trailing space, and with a byte after the first null
NameFieldBytes ==
    { <<83, 84, 65, 82, 84, 65, 78, 51>>, Pad8(<<45>>), Zeros(8),
      Pad8(<<32, 70>>), Pad8(<<70, 32>>), <<70, 0, 88, 0, 0, 0, 0, 0>> }

RECURSIVE Flatten(_)
Flatten(ss) == IF ss = <<>> THEN <<>> ELSE ss[1] \o Flatten(Tail(ss))

\* the bytes of record j of type k: its 16-bit fields and its name fields
\* filled by turns from ints and names
RecordBytes(k, ints, names, j) ==
    Flatten([i \in 1..Len(RecordFields[k]) |->
                IF RecordFields[k][i][2] = 2
                THEN ints[((i + j) % Len(ints)) + 1]
                ELSE names[((i + j) % Len(names)) + 1]])

\* a container with the map marker E1M1 and one sub-lump with this payload
MakeByteFile(k, payload) ==
    [tag   |-> Str_IWAD,
     dir   |-> << [offset |-> HeaderSize, size |-> 0, name |-> Pad8(Str_E1M1)],
                  [offset |-> HeaderSize, size |-> Len(payload),
                   name |-> Pad8(SubLumpNames[k])] >>,
     seed  |-> 0,
     end   |-> HeaderSize + Len(payload) + 32,
     bytes |-> payload]

RecordFiles ==
    {MakeByteFile(k, Flatten([j \in 1..n |-> RecordBytes(k, ints, names, j)])) :
        k \in 1..8, n \in 1..MaxRecords, ints \in IntPatterns,
        names \in NameFieldBytes \X NameFieldBytes}

InitRecords ==
    /\ wadFile \in RecordFiles
    /\ wadState = "new"
    /\ lumps = <<>>
    /\ lumpMap = EmptyMap
    /\ wadCall = [op |-> "none"]
    /\ IdlePoly
    /\ IdleGame
    /\ IdleLocate
    /\ IdleApp
    /\ IdleOther

SpecRecords == InitRecords /\ [][NextWad]_vars

\* a 16-bit field written little-endian
EncodeInt16(v) == << (v % 65536) % 256, (v % 65536) \div 256 >>

\* a name written as an 8-byte null-padded field
EncodeName(name) == Pad8(SubSeq(name, 1, IF Len(name) < 8 THEN Len(name) ELSE 8))

\* the field values of a decoded record, in the order of the layout
AsValues(k, obj) ==
    CASE k = 1 -> <<obj.x, obj.y, obj.angle, obj.type, obj.flags>>
      [] k = 2 -> <<obj.startVertex, obj.endVertex, obj.flags, obj.lineType, obj.sectorTag,
                    obj.frontSidedef, obj.backSidedef>>
      [] k = 3 -> <<obj.xOffset, obj.yOffset, obj.upperTexture, obj.lowerTexture,
                    obj.middleTexture, obj.sector>>
      [] k = 4 -> <<obj.x, obj.y>>
      [] k = 5 -> <<obj.floorHeight, obj.ceilingHeight, obj.floorTexture, obj.ceilingTexture,
                    obj.lightLevel, obj.special, obj.tag>>
      [] OTHER -> obj

EncodeRecord(k, obj) ==
    Flatten([i \in 1..Len(RecordFields[k]) |->
                IF RecordFields[k][i][2] = 2
                THEN EncodeInt16(AsValues(k, obj)[i])
                ELSE EncodeName(AsValues(k, obj)[i])])

EncodeRecords(k, records) ==
    Flatten([j \in 1..Len(records) |-> EncodeRecord(k, records[j])])

\* the bytes of the lump in the buffer
LumpBytes(file, lump) == [i \in 1..lump.size |-> BufferByte(file, lump.offset + i - 1)]

\* an 8-byte field that holds a text without white space at either end,
\* followed by null bytes only
CanonicalName(field) == field = Pad8(trim(readString(field, 8)))

\* every name field of the whole records of the lump is canonical
CanonicalNames(file, lump, k) ==
    \A j \in 0..((lump.size \div RecordSizes[k]) - 1) :
        \A i \in 1..Len(RecordFields[k]) :
            RecordFields[k][i][2] = 8 =>
                CanonicalName([b \in 1..8 |->
                    BufferByte(file, lump.offset + j * RecordSizes[k]
                                     + RecordFields[k][i][1] + b - 1)])

\* getMap has decoded category k from a lump of whole records
DecodedWhole(k) ==
    /\ wadCall.op = "getMap"
    /\ wadCall.result.kind = "ok"
    /\ CategoryLump(lumps, wadCall.name, k) # 0
    /\ lumps[CategoryLump(lumps, wadCall.name, k)].size > 0
    /\ lumps[CategoryLump(lumps, wadCall.name, k)].size % RecordSizes[k] = 0

\* C20 (as stated): for each record type and every content of a lump of
\* whole records, the decoded records written back (little-endian 16-bit
\* fields, 8-byte null-padded names) are the bytes of the lump, also when
\* a name field has leading or trailing spaces or bytes after its first
\* null.
C20_RoundTrip ==
    \A k \in 1..8 :
        DecodedWhole(k) =>
            EncodeRecords(k, wadCall.result.value.data[MapCategories[k]])
                = LumpBytes(wadFile, lumps[CategoryLump(lumps, wadCall.name, k)])

\* C20 (amended): the same for the lumps whose name fields are all
\* canonical: a text without white space at either end, then nulls only.
C20_RoundTripCanonicalNames ==
    \A k \in 1..8 :
        (DecodedWhole(k)
            /\ CanonicalNames(wadFile, lumps[CategoryLump(lumps, wadCall.name, k)], k)) =>
                EncodeRecords(k, wadCall.result.value.data[MapCategories[k]])
                    = LumpBytes(wadFile, lumps[CategoryLump(lumps, wadCall.name, k)])

\* C20 witness: two sidedefs with a full-length and a null-padded name and
\* with negative 16-bit fields have been decoded
C20_Witness ==
    /\ DecodedWhole(3)
    /\ CanonicalNames(wadFile, lumps[CategoryLump(lumps, wadCall.name, 3)], 3)
    /\ Len(wadCall.result.value.data["sidedefs"]) = 2
    /\ wadCall.result.value.data["sidedefs"][1].upperTexture = <<45>>
    /\ Len(wadCall.result.value.data["sidedefs"][1].lowerTexture) = 8
    /\ wadCall.result.value.data["sidedefs"][1].sector < 0

----------------------------------------------------------------------------
(* WADParser.getPatch and renderPatch: a patch lump is a header of four    *)
(* 16-bit fields, one 32-bit offset per column, and the columns: runs of   *)
(* <<rowStart, pixelCount, dummy, pixels.., dummy>> closed by 255.         *)

\* view.getUint8(off) on the lump's bytes: RangeError outside them
InData(data, off) == off >= 0 /\ off < Len(data)

UInt16At(data, off) == data[off + 1] + 256 * data[off + 2]

\* view.getInt32(off, true)
Int32At(data, off) == UInt16At(data, off) + 65536 * ToInt16(UInt16At(data, off + 2))

\* getPatch on a lump with these bytes
getPatch(data) ==
    LET width == ToInt16(UInt16At(data, 0))
    IN  IF Len(data) < 8 \/ Len(data) < 8 + 4 * width THEN RangeError
        ELSE Returned([width |-> width,
                       height |-> ToInt16(UInt16At(data, 2)),
                       leftOffset |-> ToInt16(UInt16At(data, 4)),
                       topOffset |-> ToInt16(UInt16At(data, 6)),
                       columnOffsets |-> [i \in 1..width |->
                                            Int32At(data, 8 + 4 * (i - 1))],
                       data |-> data])

\* the palette handed to the renderers: 256 RGB triples
Palette == [i \in 0..255 |-> <<i, (2 * i) % 256, 255 - i>>]

Transparent == <<0, 0, 0, 0>>

\* the pixels after one run of column x is drawn: pixel number
\* y * width + x for every row y of the run that is below the height
DrawRun(patch, palette, x, rowStart, pixelCount, at, pixels) ==
    [p \in DOMAIN pixels |->
        LET y == p \div patch.width
        IN  IF p % patch.width = x /\ y >= rowStart /\ y < rowStart + pixelCount
            THEN palette[patch.data[at + (y - rowStart) + 1]] \o <<255>>
            ELSE pixels[p]]

\* the while loop of renderPatch with the byte after the pixels of a run
\* not skipped
RECURSIVE DrawColumnNoTrailingDummy(_, _, _, _, _)
DrawColumnNoTrailingDummy(patch, palette, x, offset, pixels) ==
    IF ~InData(patch.data, offset) THEN RangeError
    ELSE IF patch.data[offset + 1] = 255 THEN Returned(pixels)
    ELSE IF ~InData(patch.data, offset + 1) THEN RangeError
    ELSE LET rowStart == patch.data[offset + 1]
             pixelCount == patch.data[offset + 2]
         IN  IF \E i \in 0..(pixelCount - 1) : ~InData(patch.data, offset + 3 + i)
             THEN RangeError
             ELSE DrawColumnNoTrailingDummy(patch, palette, x, offset + 3 + pixelCount,
                      DrawRun(patch, palette, x, rowStart, pixelCount, offset + 3, pixels))

\* the while loop of renderPatch for column x from offset on
RECURSIVE DrawColumn(_, _, _, _, _)
DrawColumn(patch, palette, x, offset, pixels) ==
    IF ~InData(patch.data, offset) THEN RangeError
    ELSE IF patch.data[offset + 1] = 255 THEN Returned(pixels)
    ELSE IF ~InData(patch.data, offset + 1) THEN RangeError
    ELSE LET rowStart == patch.data[offset + 1]
             pixelCount == patch.data[offset + 2]
         IN  IF \E i \in 0..(pixelCount - 1) : ~InData(patch.data, offset + 3 + i)
             THEN RangeError
             ELSE DrawColumn(patch, palette, x, offset + 3 + pixelCount + 1,
                             DrawRun(patch, palette, x, rowStart, pixelCount, offset + 3,
                                     pixels))

RECURSIVE DrawColumns(_, _, _, _)
DrawColumns(patch, palette, x, pixels) ==
    IF x >= patch.width THEN Returned(pixels)
    ELSE LET drawn == DrawColumn(patch, palette, x, patch.columnOffsets[x + 1], pixels)
         IN  IF IsThrow(drawn) THEN drawn
             ELSE DrawColumns(patch, palette, x + 1, drawn.value)

\* renderPatch(patch, palette): null for no patch, else width, height and
\* the pixels, pixel number y * width + x as <<R, G, B, A>>
renderPatch(patch, palette) ==
    IF patch.kind # "ok" THEN NullResult
    ELSE IF patch.value.width * patch.value.height < 0 THEN RangeError
    ELSE LET drawn == DrawColumns(patch.value, palette, 0,
                          [p \in 0..(patch.value.width * patch.value.height - 1) |->
                              Transparent])
         IN  IF IsThrow(drawn) THEN drawn
             ELSE Returned([width |-> patch.value.width, height |-> patch.value.height,
                            pixels |-> drawn.value])

----------------------------------------------------------------------------
(* Patch lumps written from their runs *)

MaxPatchWidth == 2

MaxPatchHeight == 3

Bytes16(n) == << n % 256, (n \div 256) % 256 >>

Bytes32(n) == Bytes16(n % 65536) \o Bytes16(n \div 65536)

\* a run: the row it starts at and its palette indices
PatchRuns ==
    {[rowStart |-> r, indices |-> ix] :
        r \in {0, 1, MaxPatchHeight}, ix \in {<<>>, <<1>>, <<1, 200>>, <<7, 7, 255>>}}

\* the columns of a patch: up to two runs in the first, none or one short
\* run from the top in the others
PatchColumns(width) ==
    {cs \in [1..width -> {<<>>} \cup {<<r>> : r \in PatchRuns}
                                 \cup {<<r, q>> : r \in PatchRuns, q \in PatchRuns}] :
        \A x \in 2..width :
            /\ Len(cs[x]) <= 1
            /\ cs[x] # <<>> => cs[x][1].rowStart <= 1 /\ Len(cs[x][1].indices) \in {1, 2}}

RunBytes(run) == <<run.rowStart, Len(run.indices), 0>> \o run.indices \o <<0>>

ColumnBytes(runs) == Flatten([i \in 1..Len(runs) |-> RunBytes(runs[i])]) \o <<255>>

\* the lump: header, column offsets, columns one after the other
PatchBytes(width, height, columns) ==
    LET start == [x \in 1..width |->
                    8 + 4 * width
                    + Len(Flatten([i \in 1..(x - 1) |-> ColumnBytes(columns[i])]))]
    IN  Bytes16(width) \o Bytes16(height) \o Bytes16(0) \o Bytes16(0)
        \o Flatten([x \in 1..width |-> Bytes32(start[x])])
        \o Flatten([x \in 1..width |-> ColumnBytes(columns[x])])

InitPatch ==
    /\ fnIn \in {[op |-> "renderPatch", width |-> w, height |-> h, columns |-> cs] :
                    w \in 1..MaxPatchWidth, h \in 1..MaxPatchHeight, cs \in
                    UNION {PatchColumns(v) : v \in 1..MaxPatchWidth}}
    /\ Len(fnIn.columns) = fnIn.width
    /\ fnOut = [kind |-> "none"]
    /\ renderer = [kind |-> "null"]
    /\ animation = [pending |-> 0, updates |-> 0]
    /\ IdleWad
    /\ IdlePoly
    /\ IdleLocate
    /\ IdleGame
    /\ IdleApp

\* renderPatch(getPatch(name), palette) for the lump of the patch
RenderPatch ==
    /\ fnOut.kind = "none"
    /\ fnOut' = renderPatch(getPatch(PatchBytes(fnIn.width, fnIn.height, fnIn.columns)),
                            Palette)
    /\ UNCHANGED <<fnIn, renderer, animation, wadVars, polyVars, locateVars, gameVars, appVars>>

NextPatch == RenderPatch

SpecPatch == InitPatch /\ [][NextPatch]_vars

\* the runs of column x (from 0) that cover row y
Covering(x, y) ==
    {i \in 1..Len(fnIn.columns[x + 1]) :
        /\ fnIn.columns[x + 1][i].rowStart <= y
        /\ y < fnIn.columns[x + 1][i].rowStart + Len(fnIn.columns[x + 1][i].indices)}

\* C21: in the output of renderPatch a pixel is opaque, with the palette
\* colour of its index in the run drawn last, exactly when a run of its
\* column covers its row, and <<0, 0, 0, 0>> otherwise; the runs of a
\* column are those before its first 255, so that bytes of a later column
\* are not drawn into it.
C21_PatchPixelsAreTheRuns ==
    fnOut.kind # "none" =>
        /\ fnOut.kind = "ok"
        /\ fnOut.value.width = fnIn.width
        /\ fnOut.value.height = fnIn.height
        /\ DOMAIN fnOut.value.pixels = 0..(fnIn.width * fnIn.height - 1)
        /\ \A x \in 0..(fnIn.width - 1), y \in 0..(fnIn.height - 1) :
               LET pixel == fnOut.value.pixels[y * fnIn.width + x]
                   last == CHOOSE i \in Covering(x, y) : \A j \in Covering(x, y) : j <= i
                   run == fnIn.columns[x + 1][last]
               IN  IF Covering(x, y) = {} THEN pixel = Transparent
                   ELSE pixel = Palette[run.indices[y - run.rowStart + 1]] \o <<255>>

\* C21 witness: a patch of one column with a single run of 2 pixels that
\* fits its height has been decoded to 2 opaque pixels
C21_Witness ==
    /\ fnOut.kind = "ok"
    /\ fnIn.width = 1
    /\ Len(fnIn.columns[1]) = 1
    /\ Len(fnIn.columns[1][1].indices) = 2
    /\ fnIn.columns[1][1].rowStart + 2 <= fnIn.height
    /\ Cardinality({p \in DOMAIN fnOut.value.pixels : fnOut.value.pixels[p][4] = 255}) = 2

----------------------------------------------------------------------------
(* WADParser.renderTexture: the patches of a texture definition drawn one  *)
(* over the other.  patchLumps maps the names of the patch lumps of the    *)
(* container to their bytes.                                               *)

\* the copy loop with the test of the source pixel's alpha left out
BlitPatchNoAlphaTest(textureDef, patchRef, patchPixels, pixels) ==
    [p \in DOMAIN pixels |->
        LET x == (p % textureDef.width) - patchRef.originX
            y == (p \div textureDef.width) - patchRef.originY
        IN  IF /\ x >= 0 /\ x < patchPixels.width
               /\ y >= 0 /\ y < patchPixels.height
            THEN patchPixels.pixels[y * patchPixels.width + x]
            ELSE pixels[p]]

\* the copy loop of one patch: destination pixel p = destY * width + destX
\* takes the source pixel (destX - originX, destY - originY) when the patch
\* has it and its alpha is above 0
BlitPatch(textureDef, patchRef, patchPixels, pixels) ==
    [p \in DOMAIN pixels |->
        LET x == (p % textureDef.width) - patchRef.originX
            y == (p \div textureDef.width) - patchRef.originY
        IN  IF /\ x >= 0 /\ x < patchPixels.width
               /\ y >= 0 /\ y < patchPixels.height
               /\ patchPixels.pixels[y * patchPixels.width + x][4] > 0
            THEN patchPixels.pixels[y * patchPixels.width + x]
            ELSE pixels[p]]

\* the loop over textureDef.patches from patch i on
RECURSIVE BlitPatches(_, _, _, _, _)
BlitPatches(textureDef, palette, patchLumps, i, pixels) ==
    IF i > Len(textureDef.patches)
    THEN Returned([width |-> textureDef.width, height |-> textureDef.height,
                   pixels |-> pixels])
    ELSE LET patchRef == textureDef.patches[i]
             patch == IF patchRef.patch \in DOMAIN patchLumps
                      THEN getPatch(patchLumps[patchRef.patch])
                      ELSE NullResult
             patchPixels == renderPatch(patch, palette)
         IN  IF IsThrow(patch) THEN patch
             ELSE IF patch.kind # "ok"
             THEN BlitPatches(textureDef, palette, patchLumps, i + 1, pixels)
             ELSE IF IsThrow(patchPixels) THEN patchPixels
             ELSE IF patchPixels.kind # "ok"
             THEN BlitPatches(textureDef, palette, patchLumps, i + 1, pixels)
             ELSE BlitPatches(textureDef, palette, patchLumps, i + 1,
                              BlitPatch(textureDef, patchRef, patchPixels.value, pixels))

renderTexture(textureDef, palette, patchLumps) ==
    IF textureDef.kind # "ok" THEN NullResult
    ELSE BlitPatches(textureDef.value, palette, patchLumps, 1,
                     [p \in 0..(textureDef.value.width * textureDef.value.height - 1) |->
                         Transparent])

\* the patches of the container, by name: 'P1' is 2 x 2 with an opaque
\* first column and an empty second one, 'P2' is 1 x 3 with its top pixel
\* left out; no lump is named 'P3'
PatchDefs ==
    [n \in {<<80, 49>>, <<80, 50>>} |->
        IF n = <<80, 49>>
        THEN [width |-> 2, height |-> 2,
              columns |-> << << [rowStart |-> 0, indices |-> <<1, 200>>] >>, <<>> >>]
        ELSE [width |-> 1, height |-> 3,
              columns |-> << << [rowStart |-> 1, indices |-> <<7, 9>>] >> >>]]

PatchLumps ==
    [n \in DOMAIN PatchDefs |->
        PatchBytes(PatchDefs[n].width, PatchDefs[n].height, PatchDefs[n].columns)]

\* the longest list of patches of a texture definition
MaxPatchRefs == 2

PatchRefs ==
    {[originX |-> ox, originY |-> oy, patch |-> n] :
        ox \in {-1, 0, 2}, oy \in {-1, 0, 1}, n \in {<<80, 49>>, <<80, 50>>, <<80, 51>>}}

\* texture definitions as parseTextureData stores them
TextureDefs ==
    {[width |-> size[1], height |-> size[2], patches |-> refs] :
        size \in {<<3, 2>>, <<1, 3>>},
        refs \in UNION {[1..n -> PatchRefs] : n \in 0..MaxPatchRefs}}

InitTexture ==
    /\ fnIn \in {[op |-> "renderTexture", textureDef |-> t] : t \in TextureDefs}
    /\ fnOut = [kind |-> "none"]
    /\ renderer = [kind |-> "null"]
    /\ animation = [pending |-> 0, updates |-> 0]
    /\ IdleWad
    /\ IdlePoly
    /\ IdleLocate
    /\ IdleGame
    /\ IdleApp

\* renderTexture(textureDef, palette)
RenderTexture ==
    /\ fnOut.kind = "none"
    /\ fnOut' = renderTexture(Returned(fnIn.textureDef), Palette, PatchLumps)
    /\ UNCHANGED <<fnIn, renderer, animation, wadVars, polyVars, locateVars, gameVars, appVars>>

NextTexture == RenderTexture

SpecTexture == InitTexture /\ [][NextTexture]_vars

\* the runs of column x of a patch that cover row y
RunsCovering(patchDef, x, y) ==
    {i \in 1..Len(patchDef.columns[x + 1]) :
        /\ patchDef.columns[x + 1][i].rowStart <= y
        /\ y < patchDef.columns[x + 1][i].rowStart + Len(patchDef.columns[x + 1][i].indices)}

\* the patches of the definition, by position in its list, that resolve
\* and have an opaque pixel at the texture position (destX, destY)
OpaqueAt(textureDef, destX, destY) ==
    {i \in 1..Len(textureDef.patches) :
        LET patchRef == textureDef.patches[i]
        IN  /\ patchRef.patch \in DOMAIN PatchDefs
            /\ destX - patchRef.originX \in 0..(PatchDefs[patchRef.patch].width - 1)
            /\ destY - patchRef.originY \in 0..(PatchDefs[patchRef.patch].height - 1)
            /\ RunsCovering(PatchDefs[patchRef.patch], destX - patchRef.originX,
                            destY - patchRef.originY) # {}}

\* the colour of the patch's pixel (x, y), which a run covers
ColourAt(patchDef, x, y) ==
    LET last == CHOOSE i \in RunsCovering(patchDef, x, y) :
                    \A j \in RunsCovering(patchDef, x, y) : j <= i
        run == patchDef.columns[x + 1][last]
    IN  Palette[run.indices[y - run.rowStart + 1]] \o <<255>>

\* C26: renderTexture returns a buffer of the declared width x height in
\* which each pixel has the colour of the last patch of the definition,
\* in its patch order, with an opaque pixel at that position, and is
\* transparent when no patch has one: transparent source pixels, pixels
\* placed outside the buffer and patches whose lump is missing change
\* nothing and raise no error.
C26_LastOpaquePatchWins ==
    fnOut.kind # "none" =>
        /\ fnOut.kind = "ok"
        /\ fnOut.value.width = fnIn.textureDef.width
        /\ fnOut.value.height = fnIn.textureDef.height
        /\ DOMAIN fnOut.value.pixels =
               0..(fnIn.textureDef.width * fnIn.textureDef.height - 1)
        /\ \A destX \in 0..(fnIn.textureDef.width - 1),
              destY \in 0..(fnIn.textureDef.height - 1) :
               LET over == OpaqueAt(fnIn.textureDef, destX, destY)
                   last == CHOOSE i \in over : \A j \in over : j <= i
                   patchRef == fnIn.textureDef.patches[last]
                   pixel == fnOut.value.pixels[destY * fnIn.textureDef.width + destX]
               IN  IF over = {} THEN pixel = Transparent
                   ELSE pixel = ColourAt(PatchDefs[patchRef.patch],
                                         destX - patchRef.originX,
                                         destY - patchRef.originY)

\* C26 witness: a texture of two patches, the second placed partly outside
\* the buffer and over the first with its transparent pixels above opaque
\* pixels of the first, which show through
C26_Witness ==
    /\ fnOut.kind = "ok"
    /\ Len(fnIn.textureDef.patches) = 2
    /\ fnIn.textureDef.patches[1].patch \in DOMAIN PatchDefs
    /\ fnIn.textureDef.patches[2].patch \in DOMAIN PatchDefs
    /\ \/ fnIn.textureDef.patches[2].originY < 0
       \/ fnIn.textureDef.patches[2].originY
              + PatchDefs[fnIn.textureDef.patches[2].patch].height > fnIn.textureDef.height
    /\ \E destX \in 0..(fnIn.textureDef.width - 1),
           destY \in 0..(fnIn.textureDef.height - 1) :
           /\ OpaqueAt(fnIn.textureDef, destX, destY) = {1}
           /\ destX - fnIn.textureDef.patches[2].originX
                  \in 0..(PatchDefs[fnIn.textureDef.patches[2].patch].width - 1)
           /\ destY - fnIn.textureDef.patches[2].originY
                  \in 0..(PatchDefs[fnIn.textureDef.patches[2].patch].height - 1)
    /\ \E destX \in 0..(fnIn.textureDef.width - 1),
           destY \in 0..(fnIn.textureDef.height - 1) :
           OpaqueAt(fnIn.textureDef, destX, destY) = {1, 2}

----------------------------------------------------------------------------
(* MapRenderer.getWallTexture and its textureCache.  A picture is a new    *)
(* object each time one is created: it carries the renderer that made it   *)
(* and its number among that renderer's pictures.                          *)

MaxContexts == 2

\* '-', 'A', 'B'
TextureNames == {<<45>>, <<65>>, <<66>>}

\* new MapRenderer(map, palette, wadParser): empty caches, textureDefs
\* from wadParser.getTextures()
NewTextureCache(context, defs) ==
    [kind |-> "ok", context |-> context, textureDefs |-> defs, textureCache |-> EmptyMap,
     composited |-> [n \in TextureNames |-> 0], created |-> 0]

\* getWallTexture with the placeholder of a missing definition returned
\* but not stored
getWallTextureForgetsPlaceholder(r, textureName) ==
    IF textureName \in DOMAIN r.textureCache
    THEN [renderer |-> r, returned |-> r.textureCache[textureName]]
    ELSE LET picture == [name |-> textureName, context |-> r.context,
                         serial |-> r.created + 1,
                         placeholder |-> textureName \notin r.textureDefs]
         IN  IF textureName \notin r.textureDefs
             THEN [renderer |-> [r EXCEPT !.created = r.created + 1], returned |-> picture]
             ELSE [renderer |-> [r EXCEPT !.created = r.created + 1,
                                          !.composited[textureName] = @ + 1,
                                          !.textureCache =
                                              MapSet(r.textureCache, textureName, picture)],
                   returned |-> picture]

\* getWallTexture(textureName): the renderer after the call and the
\* picture returned; composited counts the calls of renderTexture
getWallTexture(r, textureName) ==
    IF textureName \in DOMAIN r.textureCache
    THEN [renderer |-> r, returned |-> r.textureCache[textureName]]
    ELSE LET picture == [name |-> textureName, context |-> r.context,
                         serial |-> r.created + 1,
                         placeholder |-> textureName \notin r.textureDefs]
         IN  IF textureName \notin r.textureDefs
             THEN [renderer |-> [r EXCEPT !.created = r.created + 1,
                                          !.textureCache =
                                              MapSet(r.textureCache, textureName, picture)],
                   returned |-> picture]
             ELSE [renderer |-> [r EXCEPT !.created = r.created + 1,
                                          !.composited[textureName] = @ + 1,
                                          !.textureCache =
                                              MapSet(r.textureCache, textureName, picture)],
                   returned |-> picture]

InitCache ==
    /\ IdleOther
    /\ IdleWad
    /\ IdlePoly
    /\ IdleLocate
    /\ IdleGame
    /\ IdleApp

\* App.loadMap: a new MapRenderer for the map being loaded
NewContext(defs) ==
    /\ (IF renderer.kind = "ok" THEN renderer.context ELSE 0) < MaxContexts
    /\ renderer' = NewTextureCache((IF renderer.kind = "ok" THEN renderer.context ELSE 0) + 1,
                                   defs)
    /\ fnIn' = [op |-> "MapRenderer"]
    /\ fnOut' = [kind |-> "none"]
    /\ UNCHANGED <<animation, wadVars, polyVars, locateVars, gameVars, appVars>>

\* createWall: this.getWallTexture(textureName)
GetWallTexture(textureName) ==
    /\ renderer.kind = "ok"
    /\ renderer' = getWallTexture(renderer, textureName).renderer
    /\ fnIn' = [op |-> "getWallTexture", name |-> textureName]
    /\ fnOut' = Returned(getWallTexture(renderer, textureName).returned)
    /\ UNCHANGED <<animation, wadVars, polyVars, locateVars, gameVars, appVars>>

NextCache ==
    \/ \E defs \in SUBSET (TextureNames \ {<<45>>}) : NewContext(defs)
    \/ \E textureName \in TextureNames : GetWallTexture(textureName)

SpecCache == InitCache /\ [][NextCache]_vars

\* what holds of the cache of a renderer at any time
CacheSound ==
    renderer.kind = "ok" =>
        /\ \A n \in TextureNames : renderer.composited[n] <= 1
        /\ \A n \in DOMAIN renderer.textureCache :
               /\ renderer.textureCache[n].context = renderer.context
               /\ renderer.textureCache[n].name = n
               /\ renderer.textureCache[n].placeholder = (n \notin renderer.textureDefs)
               /\ renderer.textureCache[n].placeholder => renderer.composited[n] = 0

\* what a request, and a new renderer, do to it
CacheStep ==
    /\ (fnIn'.op = "getWallTexture" /\ renderer.kind = "ok") =>
           /\ fnIn'.name \in DOMAIN renderer'.textureCache
           /\ fnOut'.value = renderer'.textureCache[fnIn'.name]
           /\ fnIn'.name \in DOMAIN renderer.textureCache =>
                  /\ fnOut'.value = renderer.textureCache[fnIn'.name]
                  /\ renderer' = renderer
    /\ (fnIn'.op = "MapRenderer" /\ renderer' # renderer) =>
           /\ renderer'.textureCache = EmptyMap
           /\ \A n \in TextureNames : renderer'.composited[n] = 0

\* C22: within one MapRenderer renderTexture runs at most once per
\* texture name; a request for a name that was requested before returns
\* the picture stored for it and composites nothing; a name without a
\* definition is stored with its placeholder and never composited; a new
\* MapRenderer starts with an empty cache, and no picture in a cache was
\* made by another renderer.
C22_CompositedOncePerName == []CacheSound /\ [][CacheStep]_vars

\* C22 witness: in the second renderer a name with a definition and a
\* name without one have both been requested, the last request was for a
\* name already stored
C22_Witness ==
    /\ renderer.kind = "ok"
    /\ renderer.context = 2
    /\ \E n \in DOMAIN renderer.textureCache : renderer.textureCache[n].placeholder
    /\ \E n \in DOMAIN renderer.textureCache : renderer.composited[n] = 1
    /\ fnIn.op = "getWallTexture"
    /\ fnOut.value.serial < renderer.created

----------------------------------------------------------------------------
(* The application: App.loadWADFromBuffer and App.loadMap.  Palette,       *)
(* textures and music fall back to defaults when their lumps are missing   *)
(* and are left out.                                                       *)

\* new Error('Invalid WAD file: must be IWAD or PWAD')
InvalidWadError == [kind |-> "throw", error |-> "Invalid WAD file: must be IWAD or PWAD"]

\* new Error('No maps found in WAD file')
NoMapsError == [kind |-> "throw", error |-> "No maps found in WAD file"]

\* new WADParser(arrayBuffer): the object, or what parse() throws
NewWADParser(file) ==
    IF HeaderOk(file)
    THEN LET d == ParseDirectory(file.dir, 1, <<>>, EmptyMap)
         IN  Returned([file |-> file, lumps |-> d.lumps, lumpMap |-> d.lumpMap])
    ELSE InvalidWadError

\* WADParser.getMapNames
RECURSIVE getMapNames(_, _)
getMapNames(ls, i) ==
    IF i > Len(ls) THEN <<>>
    ELSE (IF IsMapName(ls[i].name) THEN <<ls[i].name>> ELSE <<>>) \o getMapNames(ls, i + 1)

\* App.loadMap(mapName): every error is caught and shown in the status
AppLoadMap(a, mapName) ==
    LET parser == a.wadParser.value
        got == getMap(parser.file, parser.lumps, mapName)
        r == NewMapRenderer(got.value.data)
    IN  IF a.wadParser.kind # "ok" THEN [a EXCEPT !.status = "Error"]
        ELSE IF got.kind # "ok" THEN [a EXCEPT !.status = "Error"]
        ELSE IF IsThrow(r) THEN [a EXCEPT !.status = "Error"]
        ELSE [a EXCEPT
                !.game = Returned([collisionLines |-> r.value.collisionLines,
                                   floorSectors |-> r.value.floorSectors,
                                   mapGeometry |-> r.value.geometry,
                                   player |-> SpawnPlayer(got.value.data,
                                                          r.value.floorSectors, NewPlayer)]),
                !.currentMap = Returned(mapName),
                !.status = "Map loaded"]

\* loadWADFromBuffer with the assignment to this.wadParser made before the
\* header is looked at
loadWADFromBufferKeepRejected(a, file) ==
    LET parser == NewWADParser(file)
        mapNames == getMapNames(parser.value.lumps, 1)
        defaultMap == IF \E i \in 1..Len(mapNames) : mapNames[i] = Str_E1M1
                      THEN Str_E1M1 ELSE mapNames[1]
    IN  IF IsThrow(parser)
        THEN [app |-> [a EXCEPT !.wadParser = Returned([file |-> file, lumps |-> <<>>,
                                                        lumpMap |-> EmptyMap]),
                                !.status = "Error"],
              outcome |-> parser]
        ELSE IF Len(mapNames) = 0
        THEN [app |-> [a EXCEPT !.wadParser = parser, !.status = "Error"],
              outcome |-> NoMapsError]
        ELSE [app |-> [AppLoadMap([a EXCEPT !.wadParser = parser, !.mapOptions = mapNames,
                                             !.mapSelect = defaultMap], defaultMap)
                          EXCEPT !.status = "maps loaded"],
              outcome |-> Returned(Len(mapNames))]

\* App.loadWADFromBuffer(arrayBuffer, filename): the App after it, and
\* whether it returned or rethrew the error it caught
loadWADFromBuffer(a, file) ==
    LET parser == NewWADParser(file)
        mapNames == getMapNames(parser.value.lumps, 1)
        defaultMap == IF \E i \in 1..Len(mapNames) : mapNames[i] = Str_E1M1
                      THEN Str_E1M1 ELSE mapNames[1]
    IN  IF IsThrow(parser)
        THEN [app |-> [a EXCEPT !.status = "Error"], outcome |-> parser]
        ELSE IF Len(mapNames) = 0
        THEN [app |-> [a EXCEPT !.wadParser = parser, !.status = "Error"],
              outcome |-> NoMapsError]
        ELSE [app |-> [AppLoadMap([a EXCEPT !.wadParser = parser, !.mapOptions = mapNames,
                                             !.mapSelect = defaultMap], defaultMap)
                          EXCEPT !.status = "maps loaded"],
              outcome |-> Returned(Len(mapNames))]

\* header tags that are not accepted: another letter, lower case, a null
\* in the fourth byte
RejectedTags == {Str_XWAD, <<105, 119, 97, 100>>, <<73, 87, 65, 0>>}

\* the containers handed to the App: a map marker and one more lump, a
\* single lump, a whole map block whose THINGS lump is empty, whole or cut
\* short, and directories with a map under a rejected tag
AppFiles ==
    {f \in NameFiles : \/ Len(f.dir) = 1
                       \/ Len(f.dir) = 2 /\ IsMapName(readString(f.dir[1].name, 8))}
    \cup {f \in SizeFiles : /\ f.dir[2].size \in {0, RecordSizes[1], RecordSizes[1] + 5}
                            /\ \A k \in 2..8 : f.dir[k + 1].size = RecordSizes[k]}
    \cup {MakeFile(tag, names, [i \in 1..Len(names) |-> 0], 7) :
            tag \in RejectedTags,
            names \in {<<Pad8(Str_E1M1), Pad8(Str_THINGS)>>, <<Pad8(Str_E1M2)>>}}

InitApp ==
    /\ IdleApp
    /\ IdleOther
    /\ IdleWad
    /\ IdlePoly
    /\ IdleLocate
    /\ IdleGame

\* a call of App.loadWADFromBuffer
LoadWADFromBuffer(file) ==
    /\ app' = loadWADFromBuffer(app, file).app
    /\ appCall' = [op |-> "loadWADFromBuffer", file |-> file,
                   outcome |-> loadWADFromBuffer(app, file).outcome]
    /\ UNCHANGED <<wadVars, polyVars, locateVars, gameVars, otherVars>>

\* the change event of the map select element
SelectMap(mapName) ==
    /\ app' = AppLoadMap([app EXCEPT !.mapSelect = mapName], mapName)
    /\ appCall' = [op |-> "loadMap", name |-> mapName]
    /\ UNCHANGED <<wadVars, polyVars, locateVars, gameVars, otherVars>>

NextApp ==
    \/ \E file \in AppFiles : LoadWADFromBuffer(file)
    \/ \E i \in 1..Len(app.mapOptions) : SelectMap(app.mapOptions[i])

SpecApp == InitApp /\ [][NextApp]_vars

\* a call of loadWADFromBuffer with a container whose tag is not accepted
RejectedLoad ==
    /\ appCall'.op = "loadWADFromBuffer"
    /\ ~HeaderOk(appCall'.file)
    /\ app' # app \/ appCall' # appCall

\* C18: loading a container whose tag is neither IWAD nor PWAD throws to
\* the caller, and the App's parser, with its directory and lookup, its
\* map selection, its current map and its game are what they were before:
\* nothing of the rejected container is in them.
C18_RejectedContainerLeavesNoTrace ==
    [][RejectedLoad =>
          /\ IsThrow(appCall'.outcome)
          /\ app'.wadParser = app.wadParser
          /\ app'.mapOptions = app.mapOptions
          /\ app'.mapSelect = app.mapSelect
          /\ app'.currentMap = app.currentMap
          /\ app'.game = app.game
          /\ app'.wadParser.kind = "ok" => app'.wadParser.value.file # appCall'.file]_vars

\* C18 witness: a container with a rejected tag was handed over while a
\* container with a map loaded from it was in place, and with none
C18_Witness ==
    /\ appCall.op = "loadWADFromBuffer"
    /\ ~HeaderOk(appCall.file)
    /\ IsThrow(appCall.outcome)
    /\ app.wadParser.kind = "ok"
    /\ app.currentMap.kind = "ok"
    /\ Len(app.mapOptions) > 0

----------------------------------------------------------------------------
(* new MapRenderer on maps whose indices do not all resolve *)

\* one room bounded by 4 one-sided linedefs, with linedef j given another
\* start vertex, front and back sidedef, and the sidedef another sector
DamagedMap(j, startVertex, frontSidedef, backSidedef, sector) ==
    LET room == Corridor(<< <<0, 128>> >>, <<>>, <<>>, FALSE)
    IN  [room EXCEPT !.linedefs[j + 1] = Linedef(startVertex, room.linedefs[j + 1].endVertex,
                                                0, frontSidedef, backSidedef),
                     !.sidedefs = << Sidedef(sector) >>]

DamagedMaps ==
    {DamagedMap(j, startVertex, frontSidedef, backSidedef, sector) :
        j \in 0..3, startVertex \in {0, 9}, frontSidedef \in {0, 1, -1},
        backSidedef \in {-1, 0, 3}, sector \in {0, 4}}

InitBuild ==
    /\ fnIn \in {[op |-> "MapRenderer", map |-> map] : map \in DamagedMaps}
    /\ fnOut = [kind |-> "none"]
    /\ renderer = [kind |-> "null"]
    /\ animation = [pending |-> 0, updates |-> 0]
    /\ IdleApp
    /\ IdleWad
    /\ IdlePoly
    /\ IdleLocate
    /\ IdleGame

\* App.loadMap: new MapRenderer(mapData, palette, this.wadParser)
BuildGeometry ==
    /\ fnOut.kind = "none"
    /\ fnOut' = NewMapRenderer(fnIn.map)
    /\ UNCHANGED <<fnIn, renderer, animation, wadVars, polyVars, locateVars, gameVars, appVars>>

NextBuild == BuildGeometry

SpecBuild == InitBuild /\ [][NextBuild]_vars

\* C25 (as stated): building the walls, collision lines and floor regions
\* of a map never throws, whatever sidedef, sector or vertex indices do
\* not resolve: the build completes, every one-sided linedef that does
\* resolve has its collision line, and a sector bounded by 3 linedefs that
\* resolve or more has its floor region.
C25_BuildNeverThrows ==
    fnOut.kind # "none" =>
        /\ fnOut.kind = "ok"
        /\ \A i \in 0..(Len(fnIn.map.linedefs) - 1) :
               OneSided(fnIn.map, i) =>
                   \E k \in 1..Len(fnOut.value.collisionLines) :
                       /\ fnOut.value.collisionLines[k].x1 =
                              At(fnIn.map.vertexes, At(fnIn.map.linedefs, i).startVertex).x
                       /\ fnOut.value.collisionLines[k].y1 =
                              At(fnIn.map.vertexes, At(fnIn.map.linedefs, i).startVertex).y
        /\ fnOut.value.floorSectors = buildFloors(fnIn.map, 0)

----------------------------------------------------------------------------
(* App.autoLoadWAD: what the page loads at startup from the files that    *)
(* the public folder serves.                                              *)

\* the supported file names, in the documented order
WadPaths == <<"doom1.wad", "doom.wad", "DOOM1.WAD", "DOOM.WAD">>

\* the containers a file of the public folder can be: E1M2 then E1M1, E1M2
\* alone, a lump that is no map, a rejected tag
ServedFiles ==
    {MakeFile(Str_IWAD, names, [i \in 1..Len(names) |-> 0], 7) :
        names \in {<<Pad8(Str_E1M2), Pad8(Str_E1M1)>>, <<Pad8(Str_E1M2)>>,
                   <<Pad8(Str_THINGS)>>}}
    \cup {MakeFile(Str_XWAD, <<Pad8(Str_E1M1)>>, <<0>>, 7)}

\* fetch(path): the response of the server, null when it is not ok
Served == [Range(WadPaths) -> {NullResult} \cup {Returned(f) : f \in ServedFiles}]

\* App.autoLoadWAD: fetch('/DOOM.WAD'), loadWADFromBuffer, and the catch
\* of whatever either throws
autoLoadWAD(a, served) ==
    IF served["DOOM.WAD"].kind # "ok" THEN [a EXCEPT !.status = "not found"]
    ELSE LET r == loadWADFromBuffer(a, served["DOOM.WAD"].value)
         IN  IF IsThrow(r.outcome) THEN [r.app EXCEPT !.status = "not found"] ELSE r.app

InitAutoLoad ==
    /\ fnIn \in {[op |-> "serve", served |-> served] : served \in Served}
    /\ fnOut = [kind |-> "none"]
    /\ renderer = [kind |-> "null"]
    /\ animation = [pending |-> 0, updates |-> 0]
    /\ IdleApp
    /\ IdleWad
    /\ IdlePoly
    /\ IdleLocate
    /\ IdleGame

\* App.init: this.autoLoadWAD()
AutoLoadWAD ==
    /\ appCall.op = "none"
    /\ app' = autoLoadWAD(app, fnIn.served)
    /\ appCall' = [op |-> "autoLoadWAD"]
    /\ UNCHANGED <<wadVars, polyVars, locateVars, gameVars, otherVars>>

NextAutoLoad == AutoLoadWAD

SpecAutoLoad == InitAutoLoad /\ [][NextAutoLoad]_vars

\* the first of the supported names that the folder serves, 0 if none
RECURSIVE FirstServed(_, _)
FirstServed(served, i) ==
    IF i > Len(WadPaths) THEN 0
    ELSE IF served[WadPaths[i]].kind = "ok" THEN i
    ELSE FirstServed(served, i + 1)

\* the map selected after a load of the file: E1M1 or the first map
DefaultMapOf(file) ==
    LET mapNames == getMapNames(NewWADParser(file).value.lumps, 1)
    IN  IF \E i \in 1..Len(mapNames) : mapNames[i] = Str_E1M1
        THEN Str_E1M1 ELSE mapNames[1]

\* C24 (as stated): after the automatic load the App holds the container
\* of the first of doom1.wad, doom.wad, DOOM1.WAD, DOOM.WAD that is
\* present, with E1M1 selected if the container has it and its first map
\* otherwise (for a container that loads); 'not found' is reported when
\* none of the four is present, and only then.
C24_AutoLoadFirstPresentInOrder ==
    appCall.op = "autoLoadWAD" =>
        LET first == FirstServed(fnIn.served, 1)
            file == fnIn.served[WadPaths[first]].value
        IN  /\ app.status = "not found" <=> first = 0
            /\ (/\ first # 0
                /\ ~IsThrow(loadWADFromBuffer(NewApp, file).outcome))
               => /\ app.wadParser = NewWADParser(file)
                  /\ app.mapSelect = DefaultMapOf(file)

----------------------------------------------------------------------------
(* Point-location on its own: getCurrentSector over floor-sector lists *)

\* the longest list of floor sectors
MaxRegions == 2

\* the polygons of the floor sectors: the square (0,0)-(100,0)-(100,100)-
\* (0,100), a square that overlaps it, and a triangle apart from both
RegionPolygons ==
    { << [x |-> 0, y |-> 0], [x |-> 100, y |-> 0], [x |-> 100, y |-> 100], [x |-> 0, y |-> 100] >>,
      << [x |-> 50, y |-> 50], [x |-> 150, y |-> 50], [x |-> 150, y |-> 150], [x |-> 50, y |-> 150] >>,
      << [x |-> 200, y |-> 0], [x |-> 300, y |-> 0], [x |-> 200, y |-> 100] >> }

RegionLists ==
    UNION {[1..n -> RegionPolygons] : n \in 0..MaxRegions}

\* floorSectors with these polygons, in this order
AsFloorSectors(polygons) ==
    [i \in 1..Len(polygons) |->
        [sectorIndex |-> i - 1, polygon |-> polygons[i],
         floorHeight |-> 8 * i, ceilingHeight |-> 128]]

\* the coordinates of the positions asked about
QueryCoordinates == {-40, 25, 75, 120, 200, 260}

InitLocate ==
    /\ locateIn \in {[floorSectors |-> AsFloorSectors(ps), x |-> x, z |-> -y] :
                        ps \in RegionLists, x \in QueryCoordinates, y \in QueryCoordinates}
    /\ locateOut = [kind |-> "none"]
    /\ IdleWad
    /\ IdlePoly
    /\ IdleGame
    /\ IdleApp
    /\ IdleOther

\* this.getCurrentSector() with the player at the position
Locate ==
    /\ locateOut.kind = "none"
    /\ locateOut' = Returned(getCurrentSector(locateIn.floorSectors, locateIn))
    /\ UNCHANGED <<locateIn, wadVars, polyVars, gameVars, appVars, otherVars>>

NextLocate == Locate

SpecLocate == InitLocate /\ [][NextLocate]_vars

\* the floor sectors whose polygon contains the position asked about
Containing ==
    {i \in 1..Len(locateIn.floorSectors) :
        pointInPolygon(locateIn.x, -locateIn.z, locateIn.floorSectors[i].polygon)}

\* C13: getCurrentSector returns the first floor sector, in insertion
\* order, whose polygon contains the point; when none contains it, a floor
\* sector than whose vertex centroid none is nearer; and null only when
\* there is no floor sector.
C13_PointLocationTotal ==
    locateOut.kind = "ok" =>
        LET fs == locateIn.floorSectors
            at == locateOut.value
        IN  /\ (at = 0) <=> (Len(fs) = 0)
            /\ Containing # {} =>
                   /\ at \in Containing
                   /\ \A i \in Containing : at <= i
            /\ (Containing = {} /\ Len(fs) > 0) =>
                   /\ at \in 1..Len(fs)
                   /\ \A i \in 1..Len(fs) :
                          ~CentroidCloser(locateIn.x, -locateIn.z, fs[i].polygon, fs[at].polygon)

\* C13 witness: with the single region (0,0)-(100,0)-(100,100)-(0,100),
\* the point (200, 200) outside it returns that region
C13_Witness ==
    /\ locateOut.kind = "ok"
    /\ Len(locateIn.floorSectors) = 1
    /\ locateIn.floorSectors[1].polygon[3] = [x |-> 100, y |-> 100]
    /\ locateIn.floorSectors[1].polygon[1] = [x |-> 0, y |-> 0]
    /\ locateIn.x = 200
    /\ locateIn.z = -200
    /\ Containing = {}
    /\ locateOut.value = 1

----------------------------------------------------------------------------
(* Edge chaining over arbitrary edge sets: the linedefs of sector 0 run    *)
(* between three vertexes in any way, repeated, from a vertex to itself,   *)
(* apart from each other, two-sided within the sector, or to a vertex the  *)
(* map does not have.                                                      *)

\* the largest number of linedefs
MaxEdges == 3

EdgeLinedefs ==
    {Linedef(a, b, 0, 0, -1) : a \in 0..2, b \in 0..2}
    \cup {Linedef(0, 1, 0, 0, 0), Linedef(1, 1, 0, 0, 0), Linedef(2, 7, 0, 0, -1)}

EdgeMaps ==
    {MapData(<<>>, linedefs, << Sidedef(0) >>,
             << Vertex(0, 0), Vertex(SectorWidth, 0), Vertex(0, CorridorDepth) >>,
             << Sector(0, 128) >>) :
        linedefs \in UNION {[1..n -> EdgeLinedefs] : n \in 1..MaxEdges}}

InitChain ==
    /\ fnIn \in {[op |-> "getSectorPolygon", map |-> map] : map \in EdgeMaps}
    /\ fnOut = [kind |-> "none"]
    /\ renderer = [kind |-> "null"]
    /\ animation = [pending |-> 0, updates |-> 0]
    /\ IdleWad
    /\ IdlePoly
    /\ IdleLocate
    /\ IdleGame
    /\ IdleApp

\* this.getSectorPolygon(0), with the state its loop ended in
ChainEdges ==
    /\ fnOut.kind = "none"
    /\ fnOut' = Returned([polygon |-> getSectorPolygon(fnIn.map, 0)]
                          @@ ChainOf(fnIn.map, 0))
    /\ UNCHANGED <<fnIn, renderer, animation, wadVars, polyVars, locateVars, gameVars, appVars>>

NextChain == ChainEdges

SpecChain == InitChain /\ [][NextChain]_vars

\* C27: the chaining ends, for every edge set, after at most twice as
\* many steps as there are collected edges; it uses an edge at most once
\* (a point is appended only with the use of a new edge), so that the
\* points never outnumber the collected edges; and it stops at the first
\* step at which every edge is used or no unused edge starts at the
\* running end vertex: one step per edge used after the first, and one
\* more, which finds nothing, when edges are left.
C27_ChainingTerminates ==
    (fnOut.kind = "ok" /\ fnOut.value.chained) =>
        LET sl == fnOut.value.sectorLines
            chain == fnOut.value.chain
        IN  /\ chain.iterations <= 2 * Len(sl)
            /\ chain.used \subseteq 1..Len(sl)
            /\ Len(chain.points) <= Cardinality(chain.used)
            /\ Len(chain.points) <= Len(sl)
            /\ \/ /\ chain.used = 1..Len(sl)
                  /\ chain.iterations = Len(sl) - 1
               \/ /\ chain.used # 1..Len(sl)
                  /\ chain.iterations = Cardinality(chain.used)
                  /\ \A i \in (1..Len(sl)) \ chain.used :
                         LineStartV(sl[i]) # chain.currentEndVertex

\* C27 witness: three collected edges, one of them from a vertex to
\* itself and two of them the same, of which the chaining used two and
\* stopped with none starting at its end vertex
C27_Witness ==
    /\ fnOut.kind = "ok"
    /\ fnOut.value.chained
    /\ Len(fnOut.value.sectorLines) = 3
    /\ \E i \in 1..3 : LineStartV(fnOut.value.sectorLines[i])
                            = LineEndV(fnOut.value.sectorLines[i])
    /\ \E i, j \in 1..3 :
           i # j /\ fnOut.value.sectorLines[i].linedef = fnOut.value.sectorLines[j].linedef
    /\ Cardinality(fnOut.value.chain.used) = 2
    /\ fnOut.value.chain.iterations = 2

----------------------------------------------------------------------------
(* The animation loop: Game.start, Game.stop and the callbacks given to     *)
(* requestAnimationFrame.  The browser runs the callbacks requested before  *)
(* a frame one after the other in that frame; a callback requested during   *)
(* a frame runs in the next one; start() and stop() are called from event   *)
(* handlers, between frames.  animation.pending counts the callbacks        *)
(* requested for the next frame, animation.queue those of the current       *)
(* frame not yet run, animation.updates the calls of update in the current  *)
(* frame and animation.total all calls of update.                           *)

\* the most callbacks requested at a time, and the frames a run is followed for
MaxCallbacks == 3

MaxLoopFrames == 3

\* App.loadMap has loaded the first map
InitLoop ==
    /\ mapData = 1
    /\ collisionLines = MapRenderers[1].value.collisionLines
    /\ floorSectors = MapRenderers[1].value.floorSectors
    /\ mapGeometry = MapRenderers[1].value.geometry
    /\ player = SpawnPlayer(GameMaps[1], MapRenderers[1].value.floorSectors, NewPlayer)
    /\ isRunning = FALSE
    /\ spacePressed = FALSE
    /\ frames = 0
    /\ lastInput = [op |-> "loadMap", map |-> 1, previous |-> 0, grounded |-> TRUE]
    /\ animation = [pending |-> 0, queue |-> 0, updates |-> 0, total |-> 0]
    /\ fnIn = [op |-> "none"]
    /\ fnOut = [kind |-> "none"]
    /\ renderer = [kind |-> "null"]
    /\ IdleWad
    /\ IdlePoly
    /\ IdleLocate
    /\ IdleApp

\* App.startGame: Game.start, whose call of animate() requests a callback
\* and runs update
Start ==
    /\ animation.queue = 0
    /\ animation.pending < MaxCallbacks
    /\ isRunning' = TRUE
    /\ animation' = [animation EXCEPT !.pending = @ + 1, !.total = @ + 1]
    /\ player' = update(collisionLines, floorSectors, TRUE,
                        CorrectSpawnHeight(floorSectors, player), 0, <<>>)
    /\ lastInput' = [op |-> "start", delta |-> 0, move |-> <<>>, from |-> player]
    /\ UNCHANGED <<mapData, collisionLines, floorSectors, mapGeometry, spacePressed, frames,
                   fnIn, fnOut, renderer, wadVars, polyVars, locateVars, appVars>>

\* Game.stop
Stop ==
    /\ animation.queue = 0
    /\ isRunning' = FALSE
    /\ lastInput' = [op |-> "stop"]
    /\ UNCHANGED <<mapData, collisionLines, floorSectors, mapGeometry, player, spacePressed,
                   frames, otherVars, wadVars, polyVars, locateVars, appVars>>

\* the browser begins a frame: the callbacks requested are the ones to run
BeginFrame ==
    /\ animation.queue = 0
    /\ animation.pending > 0
    /\ frames < MaxLoopFrames
    /\ frames' = frames + 1
    /\ animation' = [animation EXCEPT !.pending = 0, !.queue = animation.pending,
                                      !.updates = 0]
    /\ lastInput' = [op |-> "beginFrame"]
    /\ UNCHANGED <<mapData, collisionLines, floorSectors, mapGeometry, player, isRunning,
                   spacePressed, fnIn, fnOut, renderer, wadVars, polyVars, locateVars, appVars>>

\* a callback of the frame: Game.animate
Animate(d) ==
    /\ animation.queue > 0
    /\ IF ~isRunning
       THEN /\ animation' = [animation EXCEPT !.queue = @ - 1]
            /\ lastInput' = [op |-> "return"]
            /\ UNCHANGED player
       ELSE /\ animation' = [animation EXCEPT !.queue = @ - 1, !.pending = @ + 1,
                                              !.updates = @ + 1, !.total = @ + 1]
            /\ player' = update(collisionLines, floorSectors, mapData # 0, player, d, <<>>)
            /\ lastInput' = [op |-> "frame", delta |-> d, move |-> <<>>, from |-> player]
    /\ UNCHANGED <<mapData, collisionLines, floorSectors, mapGeometry, isRunning, spacePressed,
                   frames, fnIn, fnOut, renderer, wadVars, polyVars, locateVars, appVars>>

NextLoop ==
    \/ Start
    \/ Stop
    \/ BeginFrame
    \/ \E d \in 0..MaxDelta : Animate(d)

SpecLoop == InitLoop /\ [][NextLoop]_vars

\* C30 (as stated): after any interleaving of start(), stop() and frame
\* callbacks at most one animation loop is live (one callback requested or
\* waiting to run), a frame runs update at most once, and while the game
\* stays stopped no update runs.
C30_OneLoopOneUpdatePerFrame ==
    /\ [](/\ animation.pending + animation.queue <= 1
          /\ animation.updates <= 1)
    /\ [][(~isRunning /\ ~isRunning') => animation'.total = animation.total]_vars

----------------------------------------------------------------------------
(* The segment collision test on circles and lines of whole coordinates    *)

\* the largest number of lines in the collision set
MaxLines == 2

\* circles <<cx, cy, radius>>: of radius 10 about the 100-unit segment and
\* about the segment (0,0)-(5,12), and of the player's radius
Circles ==
    {<<50, 5, 10>>, <<50, 20, 10>>, <<50, 10, 10>>, <<-5, 14, 10>>, <<-5, 15, 10>>,
     <<18, 17, 10>>, <<-11, 24, PlayerRadius>>, <<50, 15, PlayerRadius>>}

\* a CollisionLine
CollisionLine(x1, y1, x2, y2) == [x1 |-> x1, y1 |-> y1, x2 |-> x2, y2 |-> y2]

Lines ==
    {CollisionLine(0, 0, 100, 0), CollisionLine(0, 0, 5, 12), CollisionLine(5, 12, 0, 0),
     CollisionLine(1, 6, 1, 6), CollisionLine(0, 0, 9, 40), CollisionLine(60, 0, 60, 50)}

InitCollide ==
    /\ fnIn \in {[op |-> "collide", cx |-> c[1], cy |-> c[2], radius |-> c[3], lines |-> lines] :
                    c \in Circles, lines \in UNION {[1..n -> Lines] : n \in 1..MaxLines}}
    /\ fnOut = [kind |-> "none"]
    /\ renderer = [kind |-> "null"]
    /\ animation = [pending |-> 0, updates |-> 0]
    /\ IdleWad
    /\ IdlePoly
    /\ IdleLocate
    /\ IdleGame
    /\ IdleApp

\* this.circleLineCollision(cx, cy, radius, line.x1, line.y1, line.x2, line.y2)
CircleLineCollision(i) ==
    /\ fnOut.kind = "none"
    /\ i \in 1..Len(fnIn.lines)
    /\ fnOut' = Returned([op |-> "circleLineCollision", line |-> fnIn.lines[i],
                          collides |-> circleLineCollision(fnIn.cx, fnIn.cy, fnIn.radius,
                                          fnIn.lines[i].x1, fnIn.lines[i].y1,
                                          fnIn.lines[i].x2, fnIn.lines[i].y2)])
    /\ UNCHANGED <<fnIn, renderer, animation, wadVars, polyVars, locateVars, gameVars, appVars>>

\* this.checkCollision({x: cx, z: -cy}), the player's radius being the
\* circle's and the lines the active collision set
CheckCollision ==
    /\ fnOut.kind = "none"
    /\ fnIn.radius = PlayerRadius
    /\ fnOut' = Returned([op |-> "checkCollision",
                          collides |-> checkCollision(fnIn.lines, fnIn.cx, -fnIn.cy)])
    /\ UNCHANGED <<fnIn, renderer, animation, wadVars, polyVars, locateVars, gameVars, appVars>>

NextCollide ==
    \/ \E i \in 1..MaxLines : CircleLineCollision(i)
    \/ CheckCollision

SpecCollide == InitCollide /\ [][NextCollide]_vars

\* the squared distance from (cx, cy) to the closest point of the segment,
\* the projection parameter clamped to [0,1], is less than radius squared;
\* in whole numbers, the distance to the inner closest point multiplied by
\* the squared length of the segment
WithinRadius(cx, cy, radius, line) ==
    LET dx == line.x2 - line.x1
        dy == line.y2 - line.y1
        length2 == dx * dx + dy * dy
        dot == (cx - line.x1) * dx + (cy - line.y1) * dy
        toStart == (cx - line.x1) * (cx - line.x1) + (cy - line.y1) * (cy - line.y1)
        toEnd == (cx - line.x2) * (cx - line.x2) + (cy - line.y2) * (cy - line.y2)
    IN  IF length2 = 0 \/ dot <= 0 THEN toStart < radius * radius
        ELSE IF dot >= length2 THEN toEnd < radius * radius
        ELSE toStart * length2 - dot * dot < radius * radius * length2

\* C28 (as stated): circleLineCollision reports a collision exactly when
\* the squared distance from the centre to the closest point of the
\* segment is strictly less than radius squared, a distance equal to the
\* radius being no collision and a zero-length line a point; the radius-10
\* circle 5 units from the midpoint of the 100-unit segment collides and
\* the one 20 units away does not; and checkCollision is true exactly when
\* at least one line of the collision set collides.
C28_CollidesIffCloserThanRadius ==
    /\ (fnOut.kind = "ok" /\ fnOut.value.op = "circleLineCollision") =>
           /\ fnOut.value.collides
                  <=> WithinRadius(fnIn.cx, fnIn.cy, fnIn.radius, fnOut.value.line)
           /\ (fnOut.value.line = CollisionLine(0, 0, 100, 0) /\ fnIn.cx = 50
                  /\ fnIn.radius = 10)
                  => (fnOut.value.collides <=> fnIn.cy = 5)
    /\ (fnOut.kind = "ok" /\ fnOut.value.op = "checkCollision") =>
           (fnOut.value.collides
               <=> \E i \in 1..Len(fnIn.lines) :
                       circleLineCollision(fnIn.cx, fnIn.cy, PlayerRadius,
                                           fnIn.lines[i].x1, fnIn.lines[i].y1,
                                           fnIn.lines[i].x2, fnIn.lines[i].y2))

----------------------------------------------------------------------------
(* Polygon reconstruction of a rectangular region.  The region is sector 0; *)
(* its loop runs through vertexes 0, 1, 2, 3.  Edge k of the loop goes from *)
(* vertex k-1 to vertex k mod 4 and is stored either along the loop with    *)
(* the region on its front side, or against the loop with the region on     *)
(* its back side (and sector 1 on its front side).                          *)

\* rectangles, counter-clockwise and clockwise, by their four corners
RectLoops ==
    { << <<0, 0>>, <<64, 0>>, <<64, 32>>, <<0, 32>> >>,
      << <<0, 32>>, <<64, 32>>, <<64, 0>>, <<0, 0>> >>,
      << <<-5, -3>>, <<0, -3>>, <<0, 0>>, <<-5, 0>> >> }

Injective(f) == \A a, b \in DOMAIN f : f[a] = f[b] => a = b

\* the linedef of loop edge k (1..4), along the loop or against it
LoopLinedef(k, along) ==
    IF along THEN Linedef(k - 1, k % 4, 0, 0, -1)
    ELSE Linedef(k % 4, k - 1, 0, 1, 0)

\* the map whose linedefs are the loop edges order[1], order[2], ... in
\* that order
RectMap(loop, order, along) ==
    MapData(<<>>,
            [i \in 1..Len(order) |-> LoopLinedef(order[i], along[order[i]])],
            <<Sidedef(0), Sidedef(1)>>,
            [i \in 1..4 |-> Vertex(loop[i][1], loop[i][2])],
            <<Sector(0, 128), Sector(0, 128)>>)

\* every rectangle, with all four edges or with one edge removed, the
\* remaining edges in every order and every orientation
PolyCases ==
    {[loop |-> loop, removed |-> removed, order |-> order, along |-> along,
      map |-> RectMap(loop, order, along)] :
        loop \in RectLoops,
        removed \in 0..4,
        order \in UNION {[1..n -> 1..4] : n \in 3..4},
        along \in [1..4 -> BOOLEAN]}

IsPolyCase(c) ==
    /\ Injective(c.order)
    /\ Len(c.order) = (IF c.removed = 0 THEN 4 ELSE 3)
    /\ c.removed \notin Range(c.order)
    /\ c.removed # 0 => c.along[c.removed]

InitPoly ==
    /\ polyIn \in {c \in PolyCases : IsPolyCase(c)}
    /\ polyOut = [kind |-> "none"]
    /\ IdleWad
    /\ IdleGame
    /\ IdleLocate
    /\ IdleApp
    /\ IdleOther

\* this.getSectorPolygon(0) on the map
BuildPolygon ==
    /\ polyOut.kind = "none"
    /\ polyOut' = Returned(getSectorPolygon(polyIn.map, 0))
    /\ UNCHANGED <<polyIn, wadVars, locateVars, gameVars, appVars, otherVars>>

NextPoly == BuildPolygon

SpecPoly == InitPoly /\ [][NextPoly]_vars

\* the corners of the loop as points, starting at corner k (1..4)
LoopFrom(loop, k) ==
    [i \in 1..4 |-> [x |-> loop[((k + i - 2) % 4) + 1][1],
                     y |-> loop[((k + i - 2) % 4) + 1][2]]]

\* C4 (as stated): with one of the 4 edges removed, in every order of the
\* remaining 3 edges, the output is the centroid-sorted fallback ordering
\* and has exactly 4 points.
C4_OpenChainFallsBack ==
    (polyOut.kind = "ok" /\ polyIn.removed # 0) =>
        /\ Len(polyOut.value) = 4
        /\ polyOut.value =
               getSectorPolygonFallback(polyIn.map, SectorLines(polyIn.map, 0, 0))

\* C5: with all 4 edges, in every order and orientation, the output is the
\* loop's 4 corners in traversal order, starting at the start vertex of
\* the first linedef's edge: a closed loop with each corner once, every
\* consecutive pair (and last-to-first) joined by an edge of the region in
\* its traversal direction.
C5_ClosedLoopAnyOrder ==
    (polyOut.kind = "ok" /\ polyIn.removed = 0) =>
        polyOut.value = LoopFrom(polyIn.loop, polyIn.order[1])

\* a scrambled order with an edge stored against the loop
C5_Witness ==
    /\ polyOut.kind = "ok"
    /\ polyIn.removed = 0
    /\ polyIn.order = <<3, 1, 4, 2>>
    /\ ~polyIn.along[1]
    /\ Len(polyOut.value) = 4

====
